---- MODULE Spec2Model ----
(***************************************************************************)
(* The progressive small-progress-measures parity solver of libggg         *)
(* (ProgressiveSmallProgressMeasuresSolver, in                             *)
(* src/src/libggg/buechi/solvers/attractor.cpp, lines 506-919) as a state   *)
(* machine.  One solver object solves one input graph.  The solver's       *)
(* member arrays are the variables; each loop iteration of solve and each   *)
(* call of update is one action.  Nodes are the indices 0..n-1 that         *)
(* vertex_to_node / node_to_vertex assign to the vertices in enumeration    *)
(* order, so a vertex and its node index are the same value here.           *)
(***************************************************************************)
EXTENDS Integers, Sequences, FiniteSets, TLC

\* ------------------------------------------------------------------ bounds
\* Every graph with at most MaxV vertices and priorities 0..MaxPrio is an input.
MaxV == 2
MaxPrio == 1
\* Cap on the number of lift calls of one solve (lift_count + lift_attempt).
MaxLiftCalls == 300
\* solve as a function runs at most 2^MaxIterLog iterations of the main loop.
MaxIterLog == 8

\* --------------------------------------------------------------- constants
\* The reserved counter value "unbounded" stored at coordinate pl.
TOP == -1
\* "no node": the initial strategy entry, lift's target "none", best_to unset.
NoNode == -1
\* The stabilization pass runs after more than ThrottleFactor * |V| lifts.
ThrottleFactor == 10

\* ------------------------------------------------------------ input graphs
\* A graph is [n, player, priority, out]: out[v] is the sequence of the
\* targets of v's out-edges in enumeration order.
Nodes(g) == 0 .. (g.n - 1)

RECURSIVE SortedSeq(_)
SortedSeq(S) ==
    IF S = {} THEN <<>>
    ELSE LET m == CHOOSE x \in S : \A y \in S : x <= y
         IN  <<m>> \o SortedSeq(S \ {m})

\* Func(s) is the function on 0..Len(s)-1 listing the sequence s.
Func(s) == [i \in 0 .. (Len(s) - 1) |-> s[i + 1]]

MkGraph(players, priorities, outs) ==
    [n |-> Len(players), player |-> Func(players),
     priority |-> Func(priorities), out |-> Func(outs)]

\* The graph on nn vertices with owners pl, priorities pr and, for every
\* vertex v, the non-empty set es[v] of successors, enumerated in ascending
\* order.
SmallGraph(nn, pl, pr, es) ==
    [n |-> nn, player |-> pl, priority |-> pr,
     out |-> [v \in 0 .. (nn - 1) |-> SortedSeq(es[v])]]

\* pv is one of the graphs within the bounds in which every vertex has an
\* out-edge.
IsSmallGraph(g) ==
    \E nn \in 0 .. MaxV :
        \E pl \in [0 .. (nn - 1) -> {0, 1}],
           pr \in [0 .. (nn - 1) -> 0 .. MaxPrio],
           es \in [0 .. (nn - 1) -> (SUBSET (0 .. (nn - 1))) \ {{}}] :
            g = SmallGraph(nn, pl, pr, es)

\* A graph on which solve performs more than 10 * |V| lifts, so that the
\* stabilization pass runs.
StabGraph ==
    MkGraph(<<1, 0, 1, 0, 1, 0, 0>>, <<1, 7, 1, 5, 0, 2, 3>>,
            << <<2, 5>>, <<3>>, <<2, 5>>, <<5>>, <<2, 5>>, <<5>>, <<3, 5>> >>)

\* A graph with a vertex without out-edges: vertex 0 moves to the sink 1.
SinkGraph == MkGraph(<<0, 1>>, <<1, 0>>, << <<1>>, <<>> >>)

\* A valid graph on which solve performs 25 lifts (no stabilization pass), and
\* more than 10 * |V| when counts is never decremented.
ShrinkGraph ==
    MkGraph(<<1, 1, 1, 1, 0, 1, 0>>, <<3, 0, 5, 3, 1, 0, 1>>,
            << <<0>>, <<5>>, <<4>>, <<3>>, <<2>>, <<6>>, <<5>> >>)

\* The disjoint union of StabGraph and a vertex with a self-loop.
UnionGraph ==
    MkGraph(<<1, 0, 1, 0, 1, 0, 0, 0>>, <<1, 7, 1, 5, 0, 2, 3, 0>>,
            << <<2, 5>>, <<3>>, <<2, 5>>, <<5>>, <<2, 5>>, <<5>>, <<3, 5>>, <<7>> >>)

\* The cycle a -> b -> a with a = vertex 0 (owner 0, priority 2) and
\* b = vertex 1 (owner 1, priority 1).
CycleGraph == MkGraph(<<0, 1>>, <<2, 1>>, << <<1>>, <<0>> >>)

\* Vertex 2 of player 0 chooses between vertex 4, on the cycle 4 -> 1 -> 3 ->
\* 6 -> 4 of highest priority 9, enumerated first, and vertex 5, on the cycle
\* 5 -> 0 -> 5 of highest priority 2.
ForkGraph ==
    MkGraph(<<1, 0, 0, 1, 1, 1, 1>>, <<2, 4, 2, 6, 9, 1, 8>>,
            << <<5>>, <<3>>, <<4, 5>>, <<6>>, <<1>>, <<0>>, <<4>> >>)

\* A graph on which the pass runs and update raises the counter of a vertex
\* that is not on the worklist.
DemoteGraph ==
    MkGraph(<<0, 0, 1, 0, 1, 0>>, <<1, 5, 3, 7, 1, 1>>,
            << <<0, 1>>, <<3, 5>>, <<4>>, <<5>>, <<5>>, <<5>> >>)

\* A valid graph with priorities 0 and 1 on which the stabilization pass runs.
BuechiGraph ==
    MkGraph(<<1, 1, 0, 1, 0, 0, 1, 0, 0, 1, 0, 1, 0, 0, 1, 0, 1, 0>>,
            <<1, 1, 1, 1, 0, 1, 1, 1, 1, 1, 1, 1, 0, 1, 0, 1, 1, 1>>,
            << <<10>>, <<12>>, <<0>>, <<9, 6>>, <<1>>, <<5>>, <<14, 0>>, <<16>>, <<1>>, <<8, 6>>, <<10>>, <<17, 1>>, <<4, 15>>, <<3>>, <<14>>, <<2>>, <<2>>, <<14>> >>)

ScenarioGraphs ==
    {BuechiGraph, StabGraph, SinkGraph, ShrinkGraph, UnionGraph, CycleGraph, ForkGraph,
     DemoteGraph}

\* A single vertex of player 1 with priority 0 and without out-edge.
DeadEndGraph == MkGraph(<<1>>, <<0>>, << <<>> >>)

\* ggg::parity::graph::is_valid
is_valid(g) ==
    \A v \in Nodes(g) :
        /\ g.player[v] \in {0, 1}
        /\ g.priority[v] >= 0
        /\ Len(g.out[v]) > 0

\* graphs::priority_utilities::get_max_priority (0 for the empty graph)
get_max_priority(g) ==
    IF g.n = 0 THEN 0
    ELSE CHOOSE d \in {g.priority[v] : v \in Nodes(g)} :
             \A v \in Nodes(g) : g.priority[v] <= d

\* The predecessors scan of solve and update: for every vertex in order, for
\* every out-edge in order, the edges whose target is v; the result lists
\* the sources, one entry per such edge.
RECURSIVE PredScan(_, _, _, _)
PredScan(g, v, u, e) ==
    IF u >= g.n THEN <<>>
    ELSE IF e > Len(g.out[u]) THEN PredScan(g, v, u + 1, 1)
    ELSE IF g.out[u][e] = v THEN <<u>> \o PredScan(g, v, u, e + 1)
    ELSE PredScan(g, v, u, e + 1)

Preds(g, v) == PredScan(g, v, 0, 1)

\* ------------------------------------------------ progress measure lattice
\* A measure is a function on 0..k-1.  s is the record of the solver's
\* members; operators that write members return the record after the call.

\* A comparison loop that runs down to the lowest coordinate, whatever the
\* cutoff.
RECURSIVE pm_less_loop_to_zero(_, _, _, _, _)
pm_less_loop_to_zero(cnt, a, b, d, i) ==
    IF i < 0 THEN FALSE
    ELSE IF a[i] = b[i] THEN pm_less_loop_to_zero(cnt, a, b, d, i - 2)
    ELSE IF a[i] > cnt[i] /\ b[i] > cnt[i] THEN FALSE
    ELSE a[i] < b[i]

RECURSIVE pm_less_loop(_, _, _, _, _)
pm_less_loop(cnt, a, b, d, i) ==
    IF i < d THEN FALSE
    ELSE IF a[i] = b[i] THEN pm_less_loop(cnt, a, b, d, i - 2)
    ELSE IF a[i] > cnt[i] /\ b[i] > cnt[i] THEN FALSE
    ELSE a[i] < b[i]

\* A comparison that puts every measure, TOP included, below TOP.
pm_less_below_top(cnt, kk, a, b, d, pl) ==
    IF b[pl] = TOP THEN TRUE
    ELSE IF a[pl] = TOP THEN FALSE
    ELSE pm_less_loop(cnt, a, b, d, IF (kk % 2) = pl THEN kk - 2 ELSE kk - 1)

pm_less(cnt, kk, a, b, d, pl) ==
    IF b[pl] = TOP THEN a[pl] # TOP
    ELSE IF a[pl] = TOP THEN FALSE
    ELSE pm_less_loop(cnt, a, b, d, IF (kk % 2) = pl THEN kk - 2 ELSE kk - 1)

\* A copy of all coordinates, those of the other player included.
pm_copy_whole(dst, src, pl, kk) == src

pm_copy(dst, src, pl, kk) ==
    [i \in 0 .. (kk - 1) |-> IF i % 2 = pl THEN src[i] ELSE dst[i]]

\* for (; i < d; i += 2) dst[i] = 0;
RECURSIVE prog_zero(_, _, _)
prog_zero(dst, i, d) ==
    IF i < d THEN prog_zero([dst EXCEPT ![i] = 0], i + 2, d)
    ELSE [dst |-> dst, i |-> i]

\* A carry loop that resets a full digit and loses the carry.
RECURSIVE prog_carry_lost(_, _, _, _, _, _)
prog_carry_lost(dst, src, i, carry, cnt, kk) ==
    IF i >= kk THEN [dst |-> dst, carry |-> carry]
    ELSE LET v == src[i] + carry
         IN  IF v > cnt[i]
             THEN prog_carry_lost([dst EXCEPT ![i] = 0], src, i + 2, 0, cnt, kk)
             ELSE prog_carry_lost([dst EXCEPT ![i] = v], src, i + 2, 0, cnt, kk)

\* A carry loop that resets a digit already when it reaches its capacity.
RECURSIVE prog_carry_early(_, _, _, _, _, _)
prog_carry_early(dst, src, i, carry, cnt, kk) ==
    IF i >= kk THEN [dst |-> dst, carry |-> carry]
    ELSE LET v == src[i] + carry
         IN  IF v >= cnt[i]
             THEN prog_carry_early([dst EXCEPT ![i] = 0], src, i + 2, 1, cnt, kk)
             ELSE prog_carry_early([dst EXCEPT ![i] = v], src, i + 2, 0, cnt, kk)

\* for (; i < k; i += 2) { v = src[i] + carry; ... }
RECURSIVE prog_carry(_, _, _, _, _, _)
prog_carry(dst, src, i, carry, cnt, kk) ==
    IF i >= kk THEN [dst |-> dst, carry |-> carry]
    ELSE LET v == src[i] + carry
         IN  IF v > cnt[i]
             THEN prog_carry([dst EXCEPT ![i] = 0], src, i + 2, 1, cnt, kk)
             ELSE prog_carry([dst EXCEPT ![i] = v], src, i + 2, 0, cnt, kk)

\* A final carry that is dropped instead of raising the measure to TOP.
prog_top_carry_dropped(c, pl) == c.dst

\* if (carry) dst[pl] = -1;
prog_top(c, pl) == IF c.carry = 1 THEN [c.dst EXCEPT ![pl] = TOP] ELSE c.dst

\* A progression that counts the priority d for both players, whatever its
\* parity.
prog_from_parity_ignored(z, src, d, pl, cnt, kk) ==
    prog_top(prog_carry(z.dst, src, z.i, 1, cnt, kk), pl)

\* z is the state of the loop variable i and of dst after the zeroing loop.
prog_from(z, src, d, pl, cnt, kk) ==
    prog_top(prog_carry(z.dst, src, z.i, IF d % 2 = pl THEN 1 ELSE 0, cnt, kk), pl)

prog(dst, src, d, pl, cnt, kk) ==
    IF src[pl] = TOP THEN [dst EXCEPT ![pl] = TOP]
    ELSE prog_from(prog_zero(dst, pl, d), src, d, pl, cnt, kk)

\* ----------------------------------------------------------- lifting engine
\* w is the record [s, best_ch0, best_ch1, best_to]: the solver's members s
\* and the locals of lift.
\* prog(tmp.data(), pms.data() + k * to_node, d, pl);
prog_tmp(w, to_node, d, pl) ==
    [w EXCEPT !.s.tmp = prog(w.s.tmp, w.s.pms[to_node], d, pl, w.s.counts, w.s.k)]

\* if (pl) best_ch1 = to; else best_ch0 = to;
set_best_ch(w, pl, to) ==
    IF pl = 1 THEN [w EXCEPT !.best_ch1 = to] ELSE [w EXCEPT !.best_ch0 = to]

\* An owner-progress attempt that stores the value of a successor without
\* comparing it with the stored measure.
lift_max_adopt_uncompared(w, node, to_node, d, pl_max) ==
    set_best_ch([w EXCEPT !.s.pms[node] = pm_copy(@, w.s.tmp, pl_max, w.s.k)],
                pl_max, to_node)

\* if (pm_less(pm, tmp, d, pl_max)) { pm_copy(pm, tmp, pl_max); best_ch = to; }
lift_max_adopt(w, node, to_node, d, pl_max) ==
    IF pm_less(w.s.counts, w.s.k, w.s.pms[node], w.s.tmp, d, pl_max)
    THEN set_best_ch([w EXCEPT !.s.pms[node] = pm_copy(@, w.s.tmp, pl_max, w.s.k)],
                     pl_max, to_node)
    ELSE w

\* One candidate of the owner-progress attempt (lines 734-741, 748-755).
lift_max_edge(w, node, to_node, d, pl_max) ==
    lift_max_adopt(prog_tmp(w, to_node, d, pl_max), node, to_node, d, pl_max)

\* The loop over the out-edges of the owner-progress attempt (lines 743-756).
RECURSIVE lift_max_loop(_, _, _, _, _)
lift_max_loop(w, node, e, d, pl_max) ==
    IF e > Len(w.s.pv.out[node]) THEN w
    ELSE lift_max_loop(lift_max_edge(w, node, w.s.pv.out[node][e], d, pl_max),
                       node, e + 1, d, pl_max)

\* if (best_to == -1 || pm_less(tmp, best, d, pl)) { best = tmp; best_to = to; }
min_adopt(w, to_node, d, pl) ==
    IF w.best_to = NoNode \/ pm_less(w.s.counts, w.s.k, w.s.tmp, w.s.best, d, pl)
    THEN [w EXCEPT !.s.best = w.s.tmp, !.best_to = to_node]
    ELSE w

\* The scan for the smallest prog of a successor, shared by lift (lines
\* 762-774) and canlift (lines 701-713): best holds the smallest value so
\* far and best_to its target.
RECURSIVE min_scan(_, _, _, _, _)
min_scan(w, node, e, d, pl) ==
    IF e > Len(w.s.pv.out[node]) THEN w
    ELSE min_scan(min_adopt(prog_tmp(w, w.s.pv.out[node][e], d, pl),
                            w.s.pv.out[node][e], d, pl),
                  node, e + 1, d, pl)

\* An opponent-consistency attempt that records the target only when it
\* raises the counter.
lift_min_adopt_raise_only(w, node, d, pl_min) ==
    IF pm_less(w.s.counts, w.s.k, w.s.pms[node], w.s.best, d, pl_min)
    THEN set_best_ch([w EXCEPT !.s.strategy[node] = w.best_to,
                               !.s.pms[node] = pm_copy(@, w.s.best, pl_min, w.s.k)],
                     pl_min, w.best_to)
    ELSE w

\* strategy[node] = best_to; if (pm_less(pm, best, d, pl_min)) { ... }
\* (lines 776-784)
lift_min_adopt(w, node, d, pl_min) ==
    IF pm_less(w.s.counts, w.s.k, w.s.pms[node], w.s.best, d, pl_min)
    THEN set_best_ch([w EXCEPT !.s.strategy[node] = w.best_to,
                               !.s.pms[node] = pm_copy(@, w.s.best, pl_min, w.s.k)],
                     pl_min, w.best_to)
    ELSE [w EXCEPT !.s.strategy[node] = w.best_to]

\* The opponent-consistency attempt of lift (lines 760-785).
lift_min(w, node, d, pl_min) ==
    lift_min_adopt(min_scan([w EXCEPT !.best_to = NoNode], node, 1, d, pl_min),
                   node, d, pl_min)

\* The owner-progress attempt of lift (lines 732-758).
lift_max_part(w, node, target, d, pl_max) ==
    IF w.s.pms[node][pl_max] # TOP
    THEN IF target # NoNode
         THEN lift_max_edge(w, node, target, d, pl_max)
         ELSE lift_max_loop(w, node, 1, d, pl_max)
    ELSE w

\* An opponent-consistency attempt that runs whatever the hint.
lift_min_part_unhinted(w, node, target, d, pl_min) ==
    IF w.s.pms[node][pl_min] # TOP
    THEN lift_min(w, node, d, pl_min)
    ELSE w

\* The guard of the opponent-consistency attempt (line 760).
lift_min_part(w, node, target, d, pl_min) ==
    IF w.s.pms[node][pl_min] # TOP /\ (target = NoNode \/ target = w.s.strategy[node])
    THEN lift_min(w, node, d, pl_min)
    ELSE w

\* A decrement of counts[d] for a counter raised to TOP whatever the parity
\* of d.
lift_shrink_any_parity(w, node, d, pl, ch) ==
    IF ch /\ w.s.pms[node][pl] = TOP
    THEN [w EXCEPT !.s.counts[d] = @ - 1]
    ELSE w

\* counts[d]-- when player pl's counter was raised to TOP and d has parity pl
\* (lines 790-797).
lift_shrink(w, node, d, pl, ch) ==
    IF ch /\ w.s.pms[node][pl] = TOP /\ d % 2 = pl
    THEN [w EXCEPT !.s.counts[d] = @ - 1]
    ELSE w

\* A return that counts the successful calls only.
lift_return_attempt_uncounted(w) ==
    IF w.best_ch0 # NoNode \/ w.best_ch1 # NoNode
    THEN [s |-> [w.s EXCEPT !.lift_count = @ + 1], ret |-> TRUE]
    ELSE [s |-> w.s, ret |-> FALSE]

\* Lines 799-805: count the call and return.
lift_return(w) ==
    IF w.best_ch0 # NoNode \/ w.best_ch1 # NoNode
    THEN [s |-> [w.s EXCEPT !.lift_count = @ + 1], ret |-> TRUE]
    ELSE [s |-> [w.s EXCEPT !.lift_attempt = @ + 1], ret |-> FALSE]

\* Lines 787-805 of lift.
lift_finish(w, node, d) ==
    lift_return(lift_shrink(lift_shrink(w, node, d, 0, w.best_ch0 # NoNode),
                            node, d, 1, w.best_ch1 # NoNode))

\* bool lift(int node, int target): the members after the call, and the
\* value returned.
lift(s, node, target) ==
    IF s.pms[node][0] = TOP /\ s.pms[node][1] = TOP
    THEN [s |-> s, ret |-> FALSE]
    ELSE lift_finish(
             lift_min_part(
                 lift_max_part([s |-> s, best_ch0 |-> NoNode, best_ch1 |-> NoNode,
                                best_to |-> NoNode],
                               node, target, s.pv.priority[node], s.pv.player[node]),
                 node, target, s.pv.priority[node], 1 - s.pv.player[node]),
             node, s.pv.priority[node])

\* if (pm_less(pm, tmp, d, pl)) return true;  else the next edge
RECURSIVE canlift_max_loop(_, _, _, _, _)
canlift_max_test(s, node, e, d, pl) ==
    IF pm_less(s.counts, s.k, s.pms[node], s.tmp, d, pl)
    THEN [s |-> s, ret |-> TRUE]
    ELSE canlift_max_loop(s, node, e + 1, d, pl)

\* The loop of canlift's owner branch (lines 689-698).
canlift_max_loop(s, node, e, d, pl) ==
    IF e > Len(s.pv.out[node]) THEN [s |-> s, ret |-> FALSE]
    ELSE canlift_max_test(
             [s EXCEPT !.tmp = prog(s.tmp, s.pms[s.pv.out[node][e]], d, pl,
                                    s.counts, s.k)],
             node, e, d, pl)

\* Lines 714-716 of canlift.
canlift_min_test(w, node, d, pl) ==
    IF w.best_to = NoNode THEN [s |-> w.s, ret |-> FALSE]
    ELSE [s |-> w.s,
          ret |-> pm_less(w.s.counts, w.s.k, w.s.pms[node], w.s.best, d, pl)]

\* bool canlift(int node, int pl): lift in check-only mode.
canlift(s, node, pl) ==
    IF s.pms[node][pl] = TOP THEN [s |-> s, ret |-> FALSE]
    ELSE IF s.pv.player[node] = pl
    THEN canlift_max_loop(s, node, 1, s.pv.priority[node], pl)
    ELSE canlift_min_test(
             min_scan([s |-> s, best_ch0 |-> NoNode, best_ch1 |-> NoNode,
                       best_to |-> NoNode], node, 1, s.pv.priority[node], pl),
             node, s.pv.priority[node], pl)

\* ------------------------------------------------------- worklist scheduler
\* A push that does not consult the dirty flag.
todo_push_unguarded(s, node) ==
    [s EXCEPT !.dirty[node] = 1, !.todo = Append(@, node)]

todo_push(s, node) ==
    IF s.dirty[node] = 0
    THEN [s EXCEPT !.dirty[node] = 1, !.todo = Append(@, node)]
    ELSE s

\* A pop that returns the front of the queue and leaves it in the queue.
todo_pop_front_kept(s) ==
    [s |-> [s EXCEPT !.dirty[Head(s.todo)] = 0], node |-> Head(s.todo)]

\* int todo_pop(): the members after the call and the node returned.
todo_pop(s) ==
    [s |-> [s EXCEPT !.todo = Tail(@), !.dirty[Head(s.todo)] = 0],
     node |-> Head(s.todo)]

\* A successful lift whose vertex is not queued.
push_if_lifted_dropped(r, from_node) == r.s

\* if (lift(from_node, n)) todo_push(from_node);  r is lift's result.
push_if_lifted(r, from_node) ==
    IF r.ret THEN todo_push(r.s, from_node) ELSE r.s

\* for every edge into v, in scan order: if (lift(from, v)) todo_push(from)
\* (lines 549-561 and 571-583).
RECURSIVE lift_preds(_, _, _, _)
lift_preds(s, ps, j, v) ==
    IF j > Len(ps) THEN s
    ELSE lift_preds(push_if_lifted(lift(s, ps[j], v), ps[j]), ps, j + 1, v)

\* The body of the initial pass for node nd (lines 546-562): r is the result
\* of lift(nd, -1).
initial_step(r, nd) ==
    IF r.ret THEN lift_preds(r.s, Preds(r.s.pv, nd), 1, nd) ELSE r.s

\* The predecessor loop of the main loop (lines 571-583): p is the result of
\* todo_pop().
main_step(p) == lift_preds(p.s, Preds(p.s.pv, p.node), 1, p.node)

\* -------------------------------------------------------- stabilization pass
\* u is the record [s, q]: the members and update's local queue q.
\* unstable[i] = 1; q.push(i);
mark_unstable(u, i) ==
    [u EXCEPT !.s.unstable[i] = 1, !.q = Append(@, i)]

\* The second operand of line 813: c is canlift's result.
update_mark_canlift(c, q, i) ==
    IF c.ret THEN mark_unstable([s |-> c.s, q |-> q], i) ELSE [s |-> c.s, q |-> q]

\* if (pms[k * i + pl] == -1 || canlift(i, pl)) { ... }  (lines 813-816)
update_mark_test(u, i, pl) ==
    IF u.s.pms[i][pl] = TOP THEN mark_unstable(u, i)
    ELSE update_mark_canlift(canlift(u.s, i, pl), u.q, i)

\* The marking loop of update (lines 811-817).
RECURSIVE update_mark(_, _, _)
update_mark(u, i, pl) ==
    IF i >= u.s.pv.n THEN u
    ELSE update_mark(update_mark_test([u EXCEPT !.s.unstable[i] = 0], i, pl),
                     i + 1, pl)

\* The scan over the successors of m that are not unstable (lines 841-855).
RECURSIVE update_scan(_, _, _, _, _)
update_scan(w, m, e, d, pl) ==
    IF e > Len(w.s.pv.out[m]) THEN w
    ELSE IF w.s.unstable[w.s.pv.out[m][e]] # 0 THEN update_scan(w, m, e + 1, d, pl)
    ELSE update_scan(min_adopt(prog_tmp(w, w.s.pv.out[m][e], d, pl),
                               w.s.pv.out[m][e], d, pl),
                     m, e + 1, d, pl)

\* Lines 857-864: w is the result of the scan.
update_pred_test(w, q, m, d, pl) ==
    IF w.best_to = NoNode THEN [s |-> w.s, q |-> q]
    ELSE IF pm_less(w.s.counts, w.s.k, w.s.pms[m], w.s.best, d, pl)
    THEN [s |-> w.s, q |-> q]
    ELSE mark_unstable([s |-> w.s, q |-> q], m)

\* One edge m -> n of the backward propagation (lines 832-865).
update_pred(u, m, pl) ==
    IF u.s.unstable[m] # 0 THEN u
    ELSE IF u.s.pv.player[m] # pl
    THEN update_pred_test(
             update_scan([s |-> u.s, best_ch0 |-> NoNode, best_ch1 |-> NoNode,
                          best_to |-> NoNode], m, 1, u.s.pv.priority[m], pl),
             u.q, m, u.s.pv.priority[m], pl)
    ELSE u

RECURSIVE update_preds(_, _, _, _)
update_preds(u, ps, j, pl) ==
    IF j > Len(ps) THEN u
    ELSE update_preds(update_pred(u, ps[j], pl), ps, j + 1, pl)

\* while (!q.empty()) (lines 821-869)
RECURSIVE update_propagate(_, _)
update_propagate(u, pl) ==
    IF u.q = <<>> THEN u
    ELSE update_propagate(
             update_preds([u EXCEPT !.q = Tail(@)], Preds(u.s.pv, Head(u.q)), 1, pl),
             pl)

\* A final loop that decrements counts and pushes but leaves the counter.
RECURSIVE update_demote_counter_kept(_, _, _)
update_demote_counter_kept(s, i, pl) ==
    IF i >= s.pv.n THEN s
    ELSE IF s.unstable[i] = 0 /\ s.pms[i][1 - pl] # TOP
            /\ (s.pv.priority[i] % 2) # pl
    THEN update_demote_counter_kept(
             todo_push([s EXCEPT !.counts[s.pv.priority[i]] = @ - 1], i),
             i + 1, pl)
    ELSE update_demote_counter_kept(s, i + 1, pl)

\* A final loop that sets the counter to TOP and decrements counts but does
\* not queue the vertex.
RECURSIVE update_demote_unqueued(_, _, _)
update_demote_unqueued(s, i, pl) ==
    IF i >= s.pv.n THEN s
    ELSE IF s.unstable[i] = 0 /\ s.pms[i][1 - pl] # TOP
            /\ (s.pv.priority[i] % 2) # pl
    THEN update_demote_unqueued(
             [s EXCEPT !.counts[s.pv.priority[i]] = @ - 1,
                       !.pms[i][1 - pl] = TOP],
             i + 1, pl)
    ELSE update_demote_unqueued(s, i + 1, pl)

\* The final loop of update (lines 871-880).
RECURSIVE update_demote(_, _, _)
update_demote(s, i, pl) ==
    IF i >= s.pv.n THEN s
    ELSE IF s.unstable[i] = 0 /\ s.pms[i][1 - pl] # TOP
            /\ (s.pv.priority[i] % 2) # pl
    THEN update_demote(
             todo_push([s EXCEPT !.counts[s.pv.priority[i]] = @ - 1,
                                 !.pms[i][1 - pl] = TOP], i),
             i + 1, pl)
    ELSE update_demote(s, i + 1, pl)

\* void update(int pl)
update(s, pl) ==
    update_demote(update_propagate(update_mark([s |-> s, q |-> <<>>], 0, pl), pl).s,
                  0, pl)

\* A winner left unknown (-1) for a vertex whose two measures are both TOP.
extract_winner_unknown(s, v) ==
    IF s.pms[v][0] = TOP /\ s.pms[v][1] = TOP THEN -1
    ELSE IF s.pms[v][0] = TOP THEN 0 ELSE 1

\* ----------------------------------------------------------- result extractor
\* int winner = pm[0] == -1 ? 0 : 1;  (line 602)
extract_winner(s, v) == IF s.pms[v][0] = TOP THEN 0 ELSE 1

\* An entry for every vertex with a recorded successor, whoever wins it.
extract_has_strategy_unowned(s, v) == s.strategy[v] # NoNode

\* if ((*pv)[vertex].player == winner && strategy[node] != -1)  (line 605)
extract_has_strategy(s, v) ==
    s.pv.player[v] = extract_winner(s, v) /\ s.strategy[v] # NoNode

\* The RSSolution built by lines 592-611: the winning-region map and the
\* strategy map, each a function on the vertices that have an entry.
extract(s) ==
    [winning  |-> [v \in Nodes(s.pv) |-> extract_winner(s, v)],
     strategy |-> [v \in {x \in Nodes(s.pv) : extract_has_strategy(s, x)} |->
                      s.strategy[v]]]

\* RSolution::get_winning_player: the entry of the winning-region map, or -1
\* for a vertex that has none.
get_winning_player(sol, v) ==
    IF v \in DOMAIN sol.winning THEN sol.winning[v] ELSE -1

\* A solve that rejects the graph without vertices.
solve_failure_empty_rejected(g) == IF g.n = 0 THEN "InvalidInput" ELSE "none"

\* The failure solve signals for graph g: solve validates nothing and has no
\* throw statement, and the comparison of line 599 has an empty body.
solve_failure(g) == "none"

\* ------------------------------------------------------- solve as a function
\* The members after init(graph) and the initialisation of solve (lines
\* 516-543, 614-628) on a solver whose members were old: resize keeps the
\* leading elements of tmp, best and unstable and zero-fills new ones; pms,
\* strategy, counts, dirty and the two counters are overwritten; todo is
\* left as it is.
resized(vec, len) ==
    [i \in 0 .. (len - 1) |-> IF i \in DOMAIN vec THEN vec[i] ELSE 0]

init_k(g) == IF get_max_priority(g) + 1 < 2 THEN 2 ELSE get_max_priority(g) + 1

init_members(old, g) ==
    [pv |-> g, k |-> init_k(g),
     pms |-> [v \in Nodes(g) |-> [i \in 0 .. (init_k(g) - 1) |-> 0]],
     strategy |-> [v \in Nodes(g) |-> NoNode],
     counts |-> [i \in 0 .. (init_k(g) - 1) |->
                    Cardinality({v \in Nodes(g) : g.priority[v] = i})],
     tmp |-> resized(old.tmp, init_k(g)),
     best |-> resized(old.best, init_k(g)),
     dirty |-> [v \in Nodes(g) |-> 0],
     unstable |-> resized(old.unstable, g.n),
     todo |-> old.todo, lift_count |-> 0, lift_attempt |-> 0]

\* The members of a default-constructed solver.
new_members ==
    [pv |-> MkGraph(<<>>, <<>>, <<>>), k |-> 0, pms |-> <<>>, strategy |-> <<>>,
     counts |-> <<>>, tmp |-> <<>>, best |-> <<>>, dirty |-> <<>>,
     unstable |-> <<>>, todo |-> <<>>, lift_count |-> 0, lift_attempt |-> 0]

\* The variants of solve compared below.  opt.pass: the stabilization pass
\* of lines 585-589 is compiled in; opt.shrink: the decrements of counts
\* (lines 790-797 and 875) are compiled in.  The code is AsCoded.
AsCoded == [pass |-> TRUE, shrink |-> TRUE]

\* r is the result of lift or the members after update, called on members
\* whose counts were cnt.
opt_lift(r, cnt, opt) == IF opt.shrink THEN r ELSE [r EXCEPT !.s.counts = cnt]

opt_update(s, cnt, opt) == IF opt.shrink THEN s ELSE [s EXCEPT !.counts = cnt]

\* The predecessor loop (lines 549-561 and 571-583).
RECURSIVE run_lift_preds(_, _, _, _, _)
run_lift_preds(s, ps, j, v, opt) ==
    IF j > Len(ps) THEN s
    ELSE run_lift_preds(
             push_if_lifted(opt_lift(lift(s, ps[j], v), s.counts, opt), ps[j]),
             ps, j + 1, v, opt)

run_initial_step(r, nd, opt) ==
    IF r.ret THEN run_lift_preds(r.s, Preds(r.s.pv, nd), 1, nd, opt) ELSE r.s

\* The initial pass from node nd down to node 0 (lines 545-563).
RECURSIVE run_initial(_, _, _)
run_initial(s, nd, opt) ==
    IF nd < 0 THEN s
    ELSE run_initial(
             run_initial_step(opt_lift(lift(s, nd, NoNode), s.counts, opt), nd, opt),
             nd - 1, opt)

\* update(0); update(1);  (lines 587-588)
run_updates(s, opt) ==
    opt_update(update(opt_update(update(s, 0), s.counts, opt), 1), s.counts, opt)

\* One iteration of the main loop (lines 568-589): p is the result of
\* todo_pop and s1 the members after the predecessor loop; the result is the
\* record [s, last_update] of the members and the local last_update.
run_throttle(s1, last_update, opt) ==
    IF opt.pass /\ last_update + ThrottleFactor * s1.pv.n < s1.lift_count
    THEN [s |-> run_updates(s1, opt), last_update |-> s1.lift_count]
    ELSE [s |-> s1, last_update |-> last_update]

run_pop(p, last_update, opt) ==
    run_throttle(run_lift_preds(p.s, Preds(p.s.pv, p.node), 1, p.node, opt),
                 last_update, opt)

run_iteration(st, opt) == run_pop(todo_pop(st.s), st.last_update, opt)

\* while (!todo.empty()) (line 567), cut after 2^j iterations: the loop is
\* unfolded as two halves of 2^(j-1) iterations each.
RECURSIVE run_main(_, _, _)
run_main(st, j, opt) ==
    IF st.s.todo = <<>> THEN st
    ELSE IF j = 0 THEN run_iteration(st, opt)
    ELSE run_main(run_main(st, j - 1, opt), j - 1, opt)

\* The members when solve(g) returns, on a solver whose members were old.
run_solve(old, g, opt) ==
    run_main([s |-> run_initial(init_members(old, g), g.n - 1, opt),
              last_update |-> 0], MaxIterLog, opt).s

\* The solution of solve(g) called on a default-constructed solver.
solve(g) == extract(run_solve(new_members, g, AsCoded))

\* ------------------------------------------------------------ state machine
VARIABLES
    pv,            \* the input graph (const graph::Graph *pv)
    k,             \* number of coordinates of a measure
    pms,           \* pms[v][i]: coordinate i of the measure of v
    strategy,      \* strategy[v]: recorded successor or NoNode
    counts,        \* counts[i]: capacity of coordinate i
    tmp, best,     \* scratch measures of prog and of the minimum scans
    dirty,         \* dirty[v] = 1: v has a pending worklist entry
    unstable,      \* marks of the stabilization pass
    todo,          \* the FIFO worklist
    lift_count,    \* successful lifts
    lift_attempt,  \* unsuccessful lifts
    last_update,   \* lift_count at the last stabilization pass
    n,             \* loop variable of the initial pass
    pc,            \* position in solve
    solution,      \* the solution returned
    failure,       \* the failure signalled by solve, or "none"
    calls          \* the number of calls of solve on this solver object

vars == <<pv, k, pms, strategy, counts, tmp, best, dirty, unstable, todo,
          lift_count, lift_attempt, last_update, n, pc, solution, failure,
          calls>>

\* The solver's members as one record, and the assignment of such a record.
Members ==
    [pv |-> pv, k |-> k, pms |-> pms, strategy |-> strategy, counts |-> counts,
     tmp |-> tmp, best |-> best, dirty |-> dirty, unstable |-> unstable,
     todo |-> todo, lift_count |-> lift_count, lift_attempt |-> lift_attempt]

SetMembers(s) ==
    /\ pms' = s.pms /\ strategy' = s.strategy /\ counts' = s.counts
    /\ tmp' = s.tmp /\ best' = s.best /\ dirty' = s.dirty
    /\ unstable' = s.unstable /\ todo' = s.todo
    /\ lift_count' = s.lift_count /\ lift_attempt' = s.lift_attempt
    /\ UNCHANGED <<pv, k>>

EmptySolution == [winning |-> <<>>, strategy |-> <<>>]

\* A freshly constructed solver and the graph solve is called with.
Init ==
    /\ IsSmallGraph(pv) \/ pv \in ScenarioGraphs
    /\ k = 0
    /\ pms = <<>> /\ strategy = <<>> /\ counts = <<>> /\ tmp = <<>> /\ best = <<>>
    /\ dirty = <<>> /\ unstable = <<>> /\ todo = <<>>
    /\ lift_count = 0 /\ lift_attempt = 0 /\ last_update = 0
    /\ n = 0
    /\ pc = "idle"
    /\ solution = EmptySolution
    /\ failure = "none"
    /\ calls = 0

\* init(graph) and the initialisation of solve (lines 516-543, 614-628).
Begin ==
    /\ pc = "idle"
    /\ LET kk == IF get_max_priority(pv) + 1 < 2 THEN 2 ELSE get_max_priority(pv) + 1
       IN  /\ k' = kk
           /\ pms' = [v \in Nodes(pv) |-> [i \in 0 .. (kk - 1) |-> 0]]
           /\ counts' = [i \in 0 .. (kk - 1) |->
                            Cardinality({v \in Nodes(pv) : pv.priority[v] = i})]
           /\ tmp' = [i \in 0 .. (kk - 1) |-> 0]
           /\ best' = [i \in 0 .. (kk - 1) |-> 0]
    /\ strategy' = [v \in Nodes(pv) |-> NoNode]
    /\ dirty' = [v \in Nodes(pv) |-> 0]
    /\ unstable' = [v \in Nodes(pv) |-> 0]
    /\ lift_count' = 0 /\ lift_attempt' = 0 /\ last_update' = 0
    /\ n' = pv.n - 1
    /\ pc' = IF pv.n - 1 >= 0 THEN "initial" ELSE "main"
    /\ failure' = solve_failure(pv)
    /\ calls' = calls + 1
    /\ UNCHANGED <<pv, todo, solution>>

\* One iteration of the initial pass (lines 545-563).
InitialPass ==
    /\ pc = "initial"
    /\ lift_count + lift_attempt < MaxLiftCalls
    /\ SetMembers(initial_step(lift(Members, n, NoNode), n))
    /\ n' = n - 1
    /\ pc' = IF n - 1 >= 0 THEN "initial" ELSE "main"
    /\ UNCHANGED <<last_update, solution, failure, calls>>

\* A main loop that runs the stabilization pass after every iteration.
MainLoop_unthrottled ==
    /\ pc = "main"
    /\ todo # <<>>
    /\ lift_count + lift_attempt < MaxLiftCalls
    /\ SetMembers(main_step(todo_pop(Members)))
    /\ last_update' = lift_count' /\ pc' = "update0"
    /\ UNCHANGED <<n, solution, failure, calls>>

\* One iteration of the main loop up to the throttle test (lines 567-586).
MainLoop ==
    /\ pc = "main"
    /\ todo # <<>>
    /\ lift_count + lift_attempt < MaxLiftCalls
    /\ SetMembers(main_step(todo_pop(Members)))
    /\ IF last_update + ThrottleFactor * pv.n < lift_count'
       THEN last_update' = lift_count' /\ pc' = "update0"
       ELSE last_update' = last_update /\ pc' = "main"
    /\ UNCHANGED <<n, solution, failure, calls>>

\* update(0), then update(1) (lines 587-588).
Update ==
    /\ pc \in {"update0", "update1"}
    /\ SetMembers(update(Members, IF pc = "update0" THEN 0 ELSE 1))
    /\ pc' = IF pc = "update0" THEN "update1" ELSE "main"
    /\ UNCHANGED <<last_update, n, solution, failure, calls>>

\* An extraction that clears each strategy entry as it reads it.
Extract_consuming ==
    /\ pc = "main"
    /\ todo = <<>>
    /\ solution' = extract(Members)
    /\ pc' = "done"
    /\ strategy' = [v \in DOMAIN strategy |-> NoNode]
    /\ UNCHANGED <<pv, k, pms, counts, tmp, best, dirty, unstable, todo,
                   lift_count, lift_attempt, last_update, n, failure, calls>>

\* The worklist is empty: build and return the solution (lines 592-611).
Extract ==
    /\ pc = "main"
    /\ todo = <<>>
    /\ solution' = extract(Members)
    /\ pc' = "done"
    /\ UNCHANGED <<pv, k, pms, strategy, counts, tmp, best, dirty, unstable, todo,
                   lift_count, lift_attempt, last_update, n, failure, calls>>

Next == Begin \/ InitialPass \/ MainLoop \/ Update \/ Extract

Spec == Init /\ [][Next]_vars

\* A second call of solve on the same solver object, after the first has
\* returned: init and the initialisation of solve (lines 516-543, 614-628)
\* run on the members the first call left.
StartAgain(s) ==
    /\ k' = s.k
    /\ pms' = s.pms /\ strategy' = s.strategy /\ counts' = s.counts
    /\ tmp' = s.tmp /\ best' = s.best /\ dirty' = s.dirty
    /\ unstable' = s.unstable /\ todo' = s.todo
    /\ lift_count' = s.lift_count /\ lift_attempt' = s.lift_attempt

SolveAgain ==
    /\ pc = "done"
    /\ calls = 1
    /\ IsSmallGraph(pv') \/ pv' \in {SinkGraph, DeadEndGraph}
    /\ StartAgain(init_members(Members, pv'))
    /\ last_update' = 0
    /\ n' = pv'.n - 1
    /\ pc' = IF pv'.n - 1 >= 0 THEN "initial" ELSE "main"
    /\ failure' = solve_failure(pv')
    /\ calls' = calls + 1
    /\ UNCHANGED solution

ReuseNext == Next \/ SolveAgain

\* One solver object used for two calls of solve.
ReuseSpec == Init /\ [][ReuseNext]_vars

\* ---------------------------------------------------- the lattice on its own
\* pm_less, pm_copy and prog applied to measures that no run of solve need
\* reach.  k is the width, counts the capacities, pms[0] and pms[1] are two
\* stored measures, tmp is the scratch measure prog writes and n the
\* priority of the last call of prog.
LatticeWidths == 2 .. (MaxPrio + 2)

\* The measures of width kk whose coordinates of player 1-p are 0: the
\* coordinate p is TOP or a digit, the higher ones are digits, and a digit
\* may exceed every capacity by one.
PlayerMeasures(kk, p) ==
    {[i \in 0 .. (kk - 1) |->
         IF i % 2 # p THEN 0 ELSE IF i = p THEN low ELSE high[i]] :
        low \in -1 .. (MaxPrio + 1),
        high \in [{i \in 0 .. (kk - 1) : i % 2 = p /\ i > p} ->
                      0 .. (MaxPrio + 1)]}

\* The capacities of width kk that are 0 at the coordinates of player 1-p.
PlayerCounts(kk, p) ==
    {[i \in 0 .. (kk - 1) |-> IF i % 2 # p THEN 0 ELSE c[i]] :
        c \in [{i \in 0 .. (kk - 1) : i % 2 = p} -> 0 .. MaxPrio]}

LatticeInit ==
    /\ pv = MkGraph(<<>>, <<>>, <<>>)
    /\ k \in LatticeWidths
    /\ \E p \in {0, 1} :
           /\ counts \in PlayerCounts(k, p)
           /\ pms \in [0 .. 1 -> PlayerMeasures(k, p)]
    /\ tmp = [i \in 0 .. (k - 1) |-> 0]
    /\ best = [i \in 0 .. (k - 1) |-> 0]
    /\ strategy = <<>> /\ dirty = <<>> /\ unstable = <<>> /\ todo = <<>>
    /\ lift_count = 0 /\ lift_attempt = 0 /\ last_update = 0
    /\ n = 0
    /\ pc = "lattice"
    /\ solution = EmptySolution
    /\ failure = "none"
    /\ calls = 0

\* prog(tmp.data(), pms.data() + k * 0, d, pl) for some priority d and
\* player pl (lines 653-678).
ApplyProg ==
    /\ pc = "lattice"
    /\ \E d \in 0 .. (k - 1) : \E pl \in {0, 1} :
           /\ tmp' = prog(tmp, pms[0], d, pl, counts, k)
           /\ n' = d
           /\ lift_attempt' = pl
    /\ pc' = "prog"
    /\ UNCHANGED <<pv, k, pms, strategy, counts, best, dirty, unstable, todo,
                   lift_count, last_update, solution, failure, calls>>

\* if (pm_less(pm, tmp, d, pl)) pm_copy(pm, tmp, pl);  with pm the measure
\* pms[1], d and pl those of the call of prog (lines 738-740).
Adopt ==
    /\ pc = "prog"
    /\ IF pm_less(counts, k, pms[1], tmp, n, lift_attempt)
       THEN /\ pms' = [pms EXCEPT ![1] = pm_copy(@, tmp, lift_attempt, k)]
            /\ lift_count' = 1
       ELSE UNCHANGED <<pms, lift_count>>
    /\ pc' = "adopted"
    /\ UNCHANGED <<pv, k, strategy, counts, tmp, best, dirty, unstable, todo,
                   lift_attempt, last_update, n, solution, failure, calls>>

LatticeNext == ApplyProg \/ Adopt

LatticeSpec == LatticeInit /\ [][LatticeNext]_vars

\* ------------------------------------------------ recursive parity solver
\* RecursiveParitySolver (lines 229-501), with max_recursion_depth_ = 0.  A
\* solution is the record [winning, strategy] of two functions, each on the
\* vertices that have an entry.

\* graphs::priority_utilities::get_vertices_with_priority
get_vertices_with_priority(g, d) == {v \in Nodes(g) : g.priority[v] = d}

\* The target of the first out-edge of v that leads into the set A.
first_target_in(g, v, A) ==
    g.out[v][CHOOSE e \in 1 .. Len(g.out[v]) :
                 /\ g.out[v][e] \in A
                 /\ \A f \in 1 .. (e - 1) : g.out[v][f] \notin A]

\* The vertices outside A that player p attracts to A in one step.
attracted(g, A, p) ==
    {v \in Nodes(g) \ A :
        IF g.player[v] = p
        THEN \E e \in 1 .. Len(g.out[v]) : g.out[v][e] \in A
        ELSE /\ Len(g.out[v]) > 0
             /\ \A e \in 1 .. Len(g.out[v]) : g.out[v][e] \in A}

\* graphs::player_utilities::compute_attractor: the attractor of player p to
\* the set A, and for every vertex of p it adds an edge into the attractor.
RECURSIVE compute_attractor(_, _, _, _)
compute_attractor(g, A, st, p) ==
    IF attracted(g, A, p) = {} THEN [set |-> A, strategy |-> st]
    ELSE compute_attractor(
             g, A \cup attracted(g, A, p),
             [v \in DOMAIN st \cup {x \in attracted(g, A, p) : g.player[x] = p} |->
                 IF v \in DOMAIN st THEN st[v] ELSE first_target_in(g, v, A)],
             p)

\* The vertices of g outside to_remove, in vertex order: the vertex at index
\* i becomes vertex i of the subgame (lines 454-463 and 321-333).
kept_vertices(g, to_remove) == Func(SortedSeq(Nodes(g) \ to_remove))

\* The number vertex v of g has in the subgame.
sub_index(vm, v) == CHOOSE i \in DOMAIN vm : vm[i] = v

RECURSIVE sub_edges(_, _, _, _)
sub_edges(g, vm, v, e) ==
    IF e > Len(g.out[v]) THEN <<>>
    ELSE IF \E i \in DOMAIN vm : vm[i] = g.out[v][e]
    THEN <<sub_index(vm, g.out[v][e])>> \o sub_edges(g, vm, v, e + 1)
    ELSE sub_edges(g, vm, v, e + 1)

\* create_subgame(graph, to_remove) (lines 449-479); vm is
\* kept_vertices(graph, to_remove).
create_subgame(g, vm) ==
    [n |-> Cardinality(DOMAIN vm),
     player |-> [i \in DOMAIN vm |-> g.player[vm[i]]],
     priority |-> [i \in DOMAIN vm |-> g.priority[vm[i]]],
     out |-> [i \in DOMAIN vm |-> sub_edges(g, vm, vm[i], 1)]]

\* set_winning_player / set_strategy for every entry of the function new.
set_entries(old, new) ==
    [x \in DOMAIN old \cup DOMAIN new |-> IF x \in DOMAIN new THEN new[x] ELSE old[x]]

\* The entries of a subgame's map carried to the vertices of the graph
\* (lines 376-382, 393-398): keys through vm.
mapped_winning(f, vm) ==
    [v \in {vm[i] : i \in DOMAIN f} |-> f[sub_index(vm, v)]]

\* (lines 383-391, 399-407): keys and targets through vm.
mapped_strategy(f, vm) ==
    [v \in {vm[i] : i \in DOMAIN f} |-> vm[f[sub_index(vm, v)]]]

\* The solution sol with the solution sub of the subgame merged into it.
merge_sub(sol, sub, vm) ==
    [winning |-> set_entries(sol.winning, mapped_winning(sub.winning, vm)),
     strategy |-> set_entries(sol.strategy, mapped_strategy(sub.strategy, vm))]

\* The solution sol with the attractor att of player p entered (lines
\* 301-307, 347-353).
enter_attractor(sol, att, p) ==
    [winning |-> set_entries(sol.winning, [v \in att.set |-> p]),
     strategy |-> set_entries(sol.strategy, att.strategy)]

\* Lines 417-424: the strategy entries of vertices owned by their winner.
filter_strategy(g, sol) ==
    [v \in {x \in DOMAIN sol.strategy :
               g.player[x] = get_winning_player(sol, x)} |-> sol.strategy[v]]

\* Lines 426-444: the vertices owned by their winner that have no strategy
\* entry and an out-edge to a vertex of the same winner.
fill_vertices(g, w, st) ==
    {v \in Nodes(g) \ DOMAIN st :
        /\ v \in DOMAIN w /\ g.player[v] = w[v]
        /\ \E e \in 1 .. Len(g.out[v]) :
               g.out[v][e] \in DOMAIN w /\ w[g.out[v][e]] = w[v]}

fill_strategy(g, w, st) ==
    [v \in DOMAIN st \cup fill_vertices(g, w, st) |->
        IF v \in DOMAIN st THEN st[v]
        ELSE first_target_in(g, v, {x \in DOMAIN w : w[x] = w[v]})]

\* Lines 410-446: the filtered solution.
filtered_solution(g, sol) ==
    [winning |-> sol.winning,
     strategy |-> fill_strategy(g, sol.winning, filter_strategy(g, sol))]

\* The vertices of g the solution sub of the subgame gives to player p
\* (lines 335-342).
sub_region(sub, vm, p) ==
    {vm[i] : i \in {x \in DOMAIN sub.winning : sub.winning[x] = p}}

RECURSIVE solve_internal(_)

\* Lines 344-391: att is the attractor of the opponent of the priority
\* player to the region the first subgame gave it.
solve_opponent(g, sol, att, opp) ==
    merge_sub(enter_attractor(sol, att, opp),
              solve_internal(create_subgame(g, kept_vertices(g, att.set))),
              kept_vertices(g, att.set))

\* Lines 312-408: sol holds the attractor att of the priority player pp, sub
\* is the solution of the subgame without it.
solve_after_sub(g, sol, vm, sub, pp) ==
    IF sub_region(sub, vm, 1 - pp) # {}
    THEN solve_opponent(g, sol,
                        compute_attractor(g, sub_region(sub, vm, 1 - pp),
                                          <<>>, 1 - pp),
                        1 - pp)
    ELSE merge_sub(sol, sub, vm)

\* Lines 287-314: att is the attractor of the priority player pp to the
\* vertices of the highest priority.
solve_with_attractor(g, att, pp) ==
    solve_after_sub(g, enter_attractor(EmptySolution, att, pp),
                    kept_vertices(g, att.set),
                    solve_internal(create_subgame(g, kept_vertices(g, att.set))),
                    pp)

\* RecursiveParitySolver::solve_internal (lines 269-447).
solve_internal(g) ==
    IF g.n = 0 THEN EmptySolution
    ELSE filtered_solution(
             g,
             solve_with_attractor(
                 g,
                 compute_attractor(
                     g, get_vertices_with_priority(g, get_max_priority(g)),
                     <<>>, get_max_priority(g) % 2),
                 get_max_priority(g) % 2))

\* RecursiveParitySolver::solve (lines 258-267).
recursive_solve(g) == solve_internal(g)

\* ------------------------------------------------- Buechi attractor solver
\* buechi::AttractorSolver (lines 15-212).

\* AttractorSolver::validate_buchi_game (lines 188-194).
validate_buchi_game(g) == \A v \in Nodes(g) : g.priority[v] \in {0, 1}

\* AttractorSolver::get_buchi_accepting_vertices: the vertices of priority 1.
get_buchi_accepting_vertices(g) == {v \in Nodes(g) : g.priority[v] = 1}

\* AttractorSolver::compute_complement.
compute_complement(all, subset) == all \ subset

\* Lines 159-171: the out-edges of v into active vertices, and those of them
\* into the attractor.
total_successors(g, active, v) ==
    Cardinality({e \in 1 .. Len(g.out[v]) : g.out[v][e] \in active})

attractor_count(g, active, attractor, v) ==
    Cardinality({e \in 1 .. Len(g.out[v]) :
                    g.out[v][e] \in active /\ g.out[v][e] \in attractor})

\* Lines 173-181: the test that inserts vertex v.
attractor_inserts(g, active, attractor, p, v) ==
    IF g.player[v] = p
    THEN attractor_count(g, active, attractor, v) > 0
    ELSE /\ attractor_count(g, active, attractor, v) = total_successors(g, active, v)
         /\ total_successors(g, active, v) > 0

\* Lines 154-182: one run of the for loop over the active vertices still to
\* visit, in vertex order.
RECURSIVE attractor_sweep(_, _, _, _, _)
attractor_sweep(g, active, p, attractor, order) ==
    IF order = <<>> THEN attractor
    ELSE attractor_sweep(
             g, active, p,
             IF /\ Head(order) \notin attractor
                /\ attractor_inserts(g, active, attractor, p, Head(order))
             THEN attractor \cup {Head(order)} ELSE attractor,
             Tail(order))

\* Lines 150-183: the while loop, entered with changed = true.
RECURSIVE attractor_loop(_, _, _, _)
attractor_loop(g, active, p, attractor) ==
    IF Cardinality(attractor) >= Cardinality(active) THEN attractor
    ELSE IF attractor_sweep(g, active, p, attractor, SortedSeq(active)) = attractor
    THEN attractor
    ELSE attractor_loop(g, active, p,
                        attractor_sweep(g, active, p, attractor, SortedSeq(active)))

\* AttractorSolver::compute_attractor (lines 133-186).
buechi_compute_attractor(g, active, p, target) ==
    IF \/ Cardinality(target \cap active) >= Cardinality(active)
       \/ target \cap active = {}
    THEN target \cap active
    ELSE attractor_loop(g, active, p, target \cap active)

RECURSIVE buechi_loop(_, _, _)

\* Lines 47-68: the rest of one iteration, p1_attractor computed.
buechi_iteration(g, active, winning, p1_attractor) ==
    IF compute_complement(active, p1_attractor) = {}
    THEN set_entries(winning, [v \in active |-> 1])
    ELSE buechi_loop(
             g,
             active \ buechi_compute_attractor(
                          g, active, 0, compute_complement(active, p1_attractor)),
             set_entries(winning,
                         [v \in buechi_compute_attractor(
                                    g, active, 0,
                                    compute_complement(active, p1_attractor)) |-> 0]))

\* Lines 41-69: the while loop over current_active; its result is the
\* winning-region map.
buechi_loop(g, active, winning) ==
    IF active = {} THEN winning
    ELSE buechi_iteration(
             g, active, winning,
             buechi_compute_attractor(g, active, 1, get_buchi_accepting_vertices(g)))

\* Lines 73-105: the strategy entries for the winning-region map w.
buechi_strategy(g, w) ==
    [v \in {x \in Nodes(g) : /\ x \in DOMAIN w /\ w[x] \in {0, 1}
                             /\ g.player[x] = w[x] /\ Len(g.out[x]) > 0} |->
        IF \E e \in 1 .. Len(g.out[v]) :
               g.out[v][e] \in DOMAIN w /\ w[g.out[v][e]] = w[v]
        THEN first_target_in(g, v, {x \in DOMAIN w : w[x] = w[v]})
        ELSE g.out[v][1]]

\* buechi::AttractorSolver::solve (lines 15-131).
buechi_solve(g) ==
    IF ~validate_buchi_game(g) \/ g.n = 0 THEN EmptySolution
    ELSE [winning |-> buechi_loop(g, Nodes(g), <<>>),
          strategy |-> buechi_strategy(g, buechi_loop(g, Nodes(g), <<>>))]

\* ================================================================== claims
\* Helpers of the properties below.
Succ(g, v) == {g.out[v][e] : e \in 1 .. Len(g.out[v])}

Opponent(p) == 1 - p

\* The attractor of player p to the set T inside the subgame on V.
RECURSIVE Attr(_, _, _, _)
Attr(g, V, A, p) ==
    LET new == {v \in V \ A :
                   \/ g.player[v] = p /\ (Succ(g, v) \cap A) # {}
                   \/ /\ g.player[v] # p
                      /\ (Succ(g, v) \cap V) # {}
                      /\ (Succ(g, v) \cap V) \subseteq A}
    IN  IF new = {} THEN A ELSE Attr(g, V, A \cup new, p)

MaxPriorityIn(g, V) ==
    CHOOSE d \in {g.priority[v] : v \in V} : \A v \in V : g.priority[v] <= d

\* Reference solution of the parity game on the subgame V (Zielonka's
\* recursion): the pair <<W0, W1>> of the winning regions, where player 0
\* wins a play iff the highest priority occurring infinitely often is even.
RECURSIVE Zielonka(_, _)
Zielonka(g, V) ==
    IF V = {} THEN <<{}, {}>>
    ELSE LET d  == MaxPriorityIn(g, V)
             p  == d % 2
             A  == Attr(g, V, {v \in V : g.priority[v] = d}, p)
             W  == Zielonka(g, V \ A)
         IN  IF W[Opponent(p) + 1] = {}
             THEN IF p = 0 THEN <<V, {}>> ELSE <<{}, V>>
             ELSE LET B  == Attr(g, V, W[Opponent(p) + 1], Opponent(p))
                      W2 == Zielonka(g, V \ B)
                  IN  IF p = 0 THEN <<W2[1], W2[2] \cup B>>
                      ELSE <<W2[1] \cup B, W2[2]>>

RefWinner(g, v) == IF v \in Zielonka(g, Nodes(g))[1] THEN 0 ELSE 1

Returned == pc = "done"

Region(p) == {v \in Nodes(pv) : solution.winning[v] = p}

BothTop(v) == pms[v][0] = TOP /\ pms[v][1] = TOP

BothFinite(v) == pms[v][0] # TOP /\ pms[v][1] # TOP

LiftCalls == lift_count + lift_attempt

\* The pass has run and changed the run.
PassRan == last_update > 0

\* C1: on a valid graph solve gives every vertex the player who wins the
\* parity game from it (the reference solution).
C1_WinnersCorrect ==
    (Returned /\ is_valid(pv)) =>
        \A v \in Nodes(pv) : solution.winning[v] = RefWinner(pv, v)

\* C2: when the result is extracted, every vertex has exactly one of its two
\* counters equal to TOP.
C2_ExactlyOneTop ==
    (Returned /\ is_valid(pv)) =>
        \A v \in Nodes(pv) : (pms[v][0] = TOP) # (pms[v][1] = TOP)

\* The moves of v when player p follows the returned strategy.
StratSucc(p, v) ==
    IF pv.player[v] = p /\ v \in DOMAIN solution.strategy
    THEN {solution.strategy[v]}
    ELSE Succ(pv, v)

\* The vertices of priority at most d reachable from S by the moves above.
RECURSIVE ReachLow(_, _, _)
ReachLow(p, d, S) ==
    LET new == {t \in UNION {StratSucc(p, x) : x \in S} : pv.priority[t] <= d} \ S
    IN  IF new = {} THEN S ELSE ReachLow(p, d, S \cup new)

\* u lies on a cycle, under p's strategy, whose highest priority is u's.
OnCycleAsHighest(p, u) ==
    u \in ReachLow(p, pv.priority[u],
                   {t \in StratSucc(p, u) : pv.priority[t] <= pv.priority[u]})

\* C3: the returned positional strategy is winning: under it every play from
\* p's region stays in p's region and every cycle there has a highest
\* priority of parity p.
C3_StrategyWinning ==
    (Returned /\ is_valid(pv)) =>
        \A p \in {0, 1} : \A v \in Region(p) :
            /\ StratSucc(p, v) \subseteq Region(p)
            /\ (pv.priority[v] % 2 # p) => ~OnCycleAsHighest(p, v)

\* C4: in the solution returned for a valid graph, vertex v has a strategy
\* entry iff owner(v) = winner(v), and the entry is the target of an out-edge
\* of v.
C4_StrategyEntries ==
    (Returned /\ is_valid(pv)) =>
        \A v \in Nodes(pv) :
            /\ (v \in DOMAIN solution.strategy) <=> (pv.player[v] = solution.winning[v])
            /\ (v \in DOMAIN solution.strategy) => solution.strategy[v] \in Succ(pv, v)

\* Reached: a solved valid graph with a vertex that has an entry, a vertex
\* that has none, and a vertex with two out-edges that has an entry.
C4_Witness ==
    /\ Returned /\ is_valid(pv)
    /\ \E v \in Nodes(pv) : v \notin DOMAIN solution.strategy
    /\ \E v \in DOMAIN solution.strategy : Len(pv.out[v]) > 1

\* C5: each returned region W_p is closed: a p-owned vertex of W_p has a
\* successor in W_p, an opponent-owned vertex of W_p has all successors in W_p.
C5_RegionsClosed ==
    (Returned /\ is_valid(pv)) =>
        \A p \in {0, 1} : \A v \in Region(p) :
            IF pv.player[v] = p
            THEN (Succ(pv, v) \cap Region(p)) # {}
            ELSE Succ(pv, v) \subseteq Region(p)

\* The lift-free steps that can still follow one another from this state.
PhaseRank ==
    CASE pc = "idle"    -> 3 * pv.n + 6
      [] pc = "initial" -> 2 * pv.n + 5 + n
      [] pc = "main"    -> IF last_update + ThrottleFactor * pv.n < lift_count
                           THEN pv.n + 4 + Len(todo)
                           ELSE 1 + Len(todo)
      [] pc = "update0" -> pv.n + 3
      [] pc = "update1" -> pv.n + 2
      [] pc = "done"    -> 0

\* A natural number that bounds the steps solve can still take.
Rank == (MaxLiftCalls - LiftCalls) * (3 * pv.n + 7) + PhaseRank

\* C6: solve terminates: every step of solve lowers the rank, a natural
\* number, and the call is not cut short by the cap on lift calls; so the
\* main loop finds the worklist empty after finitely many steps.
C6_Terminates ==
    [][/\ Rank' < Rank
       /\ Rank' >= 0
       /\ (pc' # "done") => (lift_count' + lift_attempt' < MaxLiftCalls)]_vars

\* Reached: solve has returned on a valid graph after a stabilization pass
\* that re-enqueued a vertex and after counts were decremented.
C6_Witness ==
    /\ Returned /\ is_valid(pv) /\ PassRan
    /\ \E i \in DOMAIN counts :
           counts[i] < Cardinality({v \in Nodes(pv) : pv.priority[v] = i})

\* C7: on a graph with a vertex without out-edges solve refuses to run: it
\* signals InvalidInput before any measure is lifted and returns no winners.
C7_InvalidInputRefused ==
    (pc # "idle" /\ ~is_valid(pv)) =>
        /\ failure = "InvalidInput"
        /\ LiftCalls = 0
        /\ solution.winning = <<>>

\* C8: a vertex whose counters are both TOP, or both finite at extraction, is
\* reported as an InvariantViolation and is given no winner.
C8_ViolationReported ==
    (Returned /\ is_valid(pv)) =>
        \A v \in Nodes(pv) :
            (BothTop(v) \/ BothFinite(v)) =>
                failure = "InvariantViolation" /\ v \notin DOMAIN solution.winning

\* C9: solve on the graph without vertices signals no failure and returns a
\* solution without winning-region entry and without strategy entry.
C9_EmptyGraph ==
    (Returned /\ pv.n = 0) =>
        /\ failure = "none"
        /\ DOMAIN solution.winning = {}
        /\ DOMAIN solution.strategy = {}

\* Reached: solve has returned on the graph without vertices.
C9_Witness == Returned /\ pv.n = 0

InTodo(v) == \E j \in 1 .. Len(todo) : todo[j] = v

\* C10: at every point of solve the worklist holds each vertex at most once,
\* and dirty[v] = 1 exactly when v is in the worklist.
C10_DirtyIsWorklist ==
    (pc # "idle") =>
        /\ \A i, j \in 1 .. Len(todo) : todo[i] = todo[j] => i = j
        /\ \A v \in Nodes(pv) : (dirty[v] = 1) <=> InTodo(v)

\* Reached: right after the stabilization pass, which set to TOP a counter of
\* a vertex it found stable while that vertex was waiting in the worklist
\* among others: the pass pushed a vertex whose dirty flag was already set.
C10_Witness ==
    /\ pc = "main" /\ PassRan /\ last_update = lift_count
    /\ Len(todo) > 1
    /\ \E v \in Nodes(pv) :
           /\ InTodo(v) /\ dirty[v] = 1
           /\ unstable[v] = 0 /\ pms[v][0] = TOP
           /\ counts[pv.priority[v]] <
                  Cardinality({x \in Nodes(pv) : pv.priority[x] = pv.priority[v]})

\* solve with the stabilization pass left out.
WithoutPass == [pass |-> FALSE, shrink |-> TRUE]

\* C11: the stabilization pass preserves the result: the winning regions
\* solve returns on a valid graph, with the pass run whenever the throttle
\* test of line 585 fires, equal those solve returns when the pass never runs.
C11_PassPreservesWinners ==
    (Returned /\ is_valid(pv)) =>
        solution.winning = extract(run_solve(new_members, pv, WithoutPass)).winning

\* The player of the update call about to run, in a state between the throttle
\* test and the end of the pass.
InUpdate == pc \in {"update0", "update1"}

UpdatePlayer == IF pc = "update0" THEN 0 ELSE 1

\* v is left unmarked by the propagation of this call of update, its counter
\* of the other player was finite before the call, and its priority has the
\* other player's parity.
Demoted(v) ==
    /\ unstable'[v] = 0
    /\ pms[v][1 - UpdatePlayer] # TOP
    /\ pv.priority[v] % 2 # UpdatePlayer

InTodoNext(v) == \E j \in 1 .. Len(todo') : todo'[j] = v

WithoutShrink == [pass |-> TRUE, shrink |-> FALSE]

\* C13: the decrements of counts are not needed for the result: on a valid
\* graph solve returns the winning regions that solve returns when counts
\* stays at the initial per-priority vertex counts.
C13_ShrinkNotNeeded ==
    (Returned /\ is_valid(pv)) =>
        solution.winning =
            extract(run_solve(new_members, pv, WithoutShrink)).winning

\* No edge of g joins the vertices below m and the vertices from m on.
SplitsAt(g, m) ==
    \A v \in Nodes(g) : \A x \in Succ(g, v) : (v < m) <=> (x < m)

\* The component of g on the vertices lo .. hi-1, renumbered from 0 in the
\* same enumeration order.
Part(g, lo, hi) ==
    [n |-> hi - lo,
     player |-> [i \in 0 .. (hi - lo - 1) |-> g.player[lo + i]],
     priority |-> [i \in 0 .. (hi - lo - 1) |-> g.priority[lo + i]],
     out |-> [i \in 0 .. (hi - lo - 1) |->
                 [e \in 1 .. Len(g.out[lo + i]) |-> g.out[lo + i][e] - lo]]]

\* sol gives vertex v of the whole graph what alone gives vertex v - lo of
\* the component: the same winner, and the same strategy successor or none.
SameAsAlone(sol, alone, v, lo) ==
    /\ sol.winning[v] = alone.winning[v - lo]
    /\ (v \in DOMAIN sol.strategy) <=> ((v - lo) \in DOMAIN alone.strategy)
    /\ (v \in DOMAIN sol.strategy) => sol.strategy[v] = alone.strategy[v - lo] + lo

\* C14: on a valid graph that is the disjoint union of two components, solve
\* gives every vertex the winner and the strategy successor that solve gives
\* it on its own component alone.
C14_ComponentsIndependent ==
    (Returned /\ is_valid(pv)) =>
        \A m \in 1 .. (pv.n - 1) :
            SplitsAt(pv, m) =>
                /\ \A v \in 0 .. (m - 1) :
                       SameAsAlone(solution, solve(Part(pv, 0, m)), v, 0)
                /\ \A v \in m .. (pv.n - 1) :
                       SameAsAlone(solution, solve(Part(pv, m, pv.n)), v, m)

\* C15: solve carries no state between calls: the second call of solve on a
\* solver object, whatever graph the first call solved, returns the winning
\* regions and strategies that solve returns for the same graph on a new
\* solver object.
C15_NoStateBetweenCalls ==
    (Returned /\ calls = 2) => solution = solve(pv)

\* C16: after solve returns on a valid graph, get_winning_player answers 0 or
\* 1 for every vertex of the graph, never the -1 of an unknown vertex, and
\* the solution has no entry for a vertex outside the graph.
C16_EveryVertexDecided ==
    (Returned /\ is_valid(pv)) =>
        /\ \A v \in Nodes(pv) : get_winning_player(solution, v) \in {0, 1}
        /\ DOMAIN solution.winning \subseteq Nodes(pv)
        /\ \A v \in 0..(2 * MaxV + 8) \ Nodes(pv) :
              get_winning_player(solution, v) = -1

\* A valid graph solved with a vertex whose two measures are both TOP and a
\* vertex of each winner.
C16_Witness ==
    /\ Returned /\ is_valid(pv)
    /\ \E v \in Nodes(pv) : BothTop(v)
    /\ \E v, w \in Nodes(pv) :
          get_winning_player(solution, v) = 0 /\ get_winning_player(solution, w) = 1

\* The graph played on is one vertex whose only edge is a self-loop.
SelfLoop == pv.n = 1 /\ pv.out[0] = <<0>>

\* C17: on a single vertex with a self-loop the winner is the parity of the
\* vertex's priority, whoever owns it, and the strategy maps the vertex to
\* itself exactly when its owner is that winner (no entry otherwise).
C17_SelfLoopWinner ==
    (Returned /\ SelfLoop) =>
        /\ get_winning_player(solution, 0) = pv.priority[0] % 2
        /\ (0 \in DOMAIN solution.strategy) <=> (pv.player[0] = pv.priority[0] % 2)
        /\ (0 \in DOMAIN solution.strategy) => solution.strategy[0] = 0

\* A self-loop of even priority owned by player 1 has been solved: player 0
\* wins a vertex it does not own, and the strategy has no entry.
C17_Witness ==
    /\ Returned /\ SelfLoop
    /\ pv.priority[0] % 2 = 0 /\ pv.player[0] = 1
    /\ get_winning_player(solution, 0) = 0
    /\ solution.strategy = <<>>

\* The vertices met on the first j steps of the walk that starts at v and
\* follows the first out-edge of every vertex.
RECURSIVE Walk(_, _, _)
Walk(g, v, j) ==
    IF j = 0 THEN {}
    ELSE IF g.out[v] = <<>> THEN {v}
    ELSE {v} \cup Walk(g, g.out[v][1], j - 1)

\* g is one simple cycle: every vertex has exactly one out-edge, and the walk
\* from any vertex passes through every vertex.
OneCycle(g) ==
    /\ g.n > 0
    /\ \A v \in Nodes(g) : Len(g.out[v]) = 1
    /\ \A v \in Nodes(g) : Walk(g, v, g.n) = Nodes(g)

ClosedCycle(g, u) ==
    \A x \in Walk(g, u, g.n) :
        Len(g.out[x]) = 1 /\ Walk(g, x, g.n) = Walk(g, u, g.n)

\* v is a vertex of player 0 with the two successors e and o, e on a closed
\* cycle of even highest priority and o on a closed cycle of odd highest
\* priority, the two cycles disjoint.
Fork(g, v, e, o) ==
    /\ g.player[v] = 0
    /\ Len(g.out[v]) = 2 /\ e # o
    /\ {g.out[v][1], g.out[v][2]} = {e, o}
    /\ ClosedCycle(g, e) /\ ClosedCycle(g, o)
    /\ Walk(g, e, g.n) \cap Walk(g, o, g.n) = {}
    /\ MaxPriorityIn(g, Walk(g, e, g.n)) % 2 = 0
    /\ MaxPriorityIn(g, Walk(g, o, g.n)) % 2 = 1

\* C19: a vertex of player 0 with two successors, one on an even-dominated
\* and one on an odd-dominated closed cycle, is won by player 0 and its
\* strategy entry is the successor on the even-dominated cycle, whichever
\* of the two edges is enumerated first.
C19_ForkTakesEvenCycle ==
    Returned =>
        \A v, e, o \in Nodes(pv) :
            Fork(pv, v, e, o) =>
                /\ get_winning_player(solution, v) = 0
                /\ v \in DOMAIN solution.strategy
                /\ solution.strategy[v] = e

\* The step taken is the result extraction of lines 592-611.
Extracting == pc = "main" /\ pc' = "done"

\* C20: result extraction only reads the converged state: it changes no
\* measure, no counts entry, no strategy entry and not the worklist, so
\* extracting again from the state it leaves yields the solution returned.
C20_ExtractionReadOnly ==
    [][Extracting =>
          /\ pms' = pms /\ counts' = counts
          /\ strategy' = strategy /\ todo' = todo
          /\ extract(Members') = solution']_vars

\* A solution with a strategy entry has been extracted, and extracting again
\* from the state left behind gives the same solution.
C20_Witness ==
    /\ Returned /\ todo = <<>>
    /\ solution.strategy # <<>>
    /\ extract(Members) = solution

\* solve is leaving the main loop: the test of line 567 finds the worklist
\* empty.
LeavingMainLoop == pc = "main" /\ todo = <<>>

\* C21: when solve leaves the main loop no vertex can be lifted for either
\* player under the counts then in force, and a further lift(v, none) would
\* return false.
C21_ClosedAtExit ==
    LeavingMainLoop =>
        \A v \in Nodes(pv) :
            /\ ~canlift(Members, v, 0).ret
            /\ ~canlift(Members, v, 1).ret
            /\ ~lift(Members, v, NoNode).ret

\* The main loop is left after vertices were popped from the worklist, with a
\* vertex undecided for one player.
C21_Witness ==
    /\ LeavingMainLoop /\ is_valid(pv)
    /\ lift_count > pv.n
    /\ \E v \in Nodes(pv) : pms[v][0] # TOP /\ pms[v][1] = TOP

\* solve is running or has returned: the measures exist.
Solving == pc # "idle"

\* C22: in every state solve reaches on a valid graph, after any lift and
\* any pass, no vertex has its counter of player 0 and its counter of
\* player 1 both at TOP.
C22_NeverBothTop ==
    (Solving /\ is_valid(pv)) => \A v \in Nodes(pv) : ~BothTop(v)

\* The vertices the propagation of the call of update that is returning has
\* left unmarked.
StableNext == {v \in Nodes(pv) : unstable'[v] = 0}

\* C23: when the backward propagation of update(p) is over, the vertices
\* with unstable = 0 form a region the opponent of p can keep the play in:
\* such a vertex owned by p has all its successors in the region, one owned
\* by 1-p has at least one.
C23_StableRegionClosed ==
    [][InUpdate =>
          \A v \in StableNext :
              IF pv.player[v] = UpdatePlayer
              THEN Succ(pv, v) \subseteq StableNext
              ELSE Succ(pv, v) \cap StableNext # {}]_vars

\* The coordinates of player p of the measures a and b differ.
Differ(kk, a, b, p) == \E i \in 0 .. (kk - 1) : i % 2 = p /\ a[i] # b[i]

\* The call lift(node, .) that took the members s to the members t moved the
\* measure of node upward: a counter at TOP stayed there, and coordinates of
\* a player that changed are greater than before under pm_less at the
\* priority of node with the counts the call started with.
Raised(s, t, node) ==
    \A p \in {0, 1} :
        /\ s.pms[node][p] = TOP => t.pms[node][p] = TOP
        /\ (s.pms[node][p] # TOP /\ Differ(s.k, s.pms[node], t.pms[node], p)) =>
               pm_less(s.counts, s.k, s.pms[node], t.pms[node],
                       s.pv.priority[node], p)

\* Every call of lift made by the loop lift_preds moved its vertex upward.
RECURSIVE lift_preds_raise(_, _, _, _)
lift_preds_raise(s, ps, j, v) ==
    IF j > Len(ps) THEN TRUE
    ELSE /\ Raised(s, lift(s, ps[j], v).s, ps[j])
         /\ lift_preds_raise(push_if_lifted(lift(s, ps[j], v), ps[j]), ps, j + 1, v)

\* Every call of lift made by the iteration of the initial pass or of the
\* main loop that starts in this state moved its vertex upward.
StepRaises ==
    IF pc = "initial"
    THEN /\ Raised(Members, lift(Members, n, NoNode).s, n)
         /\ lift(Members, n, NoNode).ret =>
                lift_preds_raise(lift(Members, n, NoNode).s, Preds(pv, n), 1, n)
    ELSE lift_preds_raise(todo_pop(Members).s, Preds(pv, Head(todo)), 1, Head(todo))

\* C24: stored counters only move upward during solve: a counter at TOP
\* stays at TOP until solve returns, and every change lift makes to a finite
\* counter makes the measure greater than it was, under pm_less at the
\* vertex's priority with the counts in force at that moment.
C24_CountersOnlyRise ==
    [][(Solving /\ pc' # "idle") =>
          /\ \A v \in Nodes(pv) : \A p \in {0, 1} :
                 pms[v][p] = TOP => pms'[v][p] = TOP
          /\ (pc = "initial" \/ (pc = "main" /\ todo # <<>>)) => StepRaises]_vars

\* A finite counter has been raised to a greater finite value by a lift of
\* the main loop, and another counter is already at TOP.
C24_Witness ==
    /\ pc = "main" /\ lift_count > pv.n
    /\ \E v \in Nodes(pv) : pms[v][pv.priority[v]] > 1 /\ pms[v][pv.priority[v] % 2] # TOP
    /\ \E v \in Nodes(pv) : \E p \in {0, 1} : pms[v][p] = TOP

\* In the members s every counts[i] is the number of vertices of priority i
\* whose counter for the player i mod 2 is not TOP.
CountsExact(s) ==
    \A i \in 0 .. (s.k - 1) :
        s.counts[i] = Cardinality({v \in Nodes(s.pv) :
                                      s.pv.priority[v] = i /\ s.pms[v][i % 2] # TOP})

\* counts is exact after every call of lift made by the loop lift_preds.
RECURSIVE lift_preds_exact(_, _, _, _)
lift_preds_exact(s, ps, j, v) ==
    IF j > Len(ps) THEN TRUE
    ELSE /\ CountsExact(lift(s, ps[j], v).s)
         /\ lift_preds_exact(push_if_lifted(lift(s, ps[j], v), ps[j]), ps, j + 1, v)

\* counts is exact after every call of lift made by the iteration of the
\* initial pass or of the main loop that starts in this state.
StepExact ==
    IF pc = "initial"
    THEN /\ CountsExact(lift(Members, n, NoNode).s)
         /\ lift(Members, n, NoNode).ret =>
                lift_preds_exact(lift(Members, n, NoNode).s, Preds(pv, n), 1, n)
    ELSE IF pc = "main" /\ todo # <<>>
    THEN lift_preds_exact(todo_pop(Members).s, Preds(pv, Head(todo)), 1, Head(todo))
    ELSE TRUE

\* C25: between any two calls of lift or update, counts[i] is, for every
\* priority i below k, the number of vertices of priority i whose counter for
\* the player i mod 2 is not TOP; so it starts at the number of vertices of
\* priority i and never becomes negative.
C25_CountsExact ==
    Solving =>
        /\ CountsExact(Members)
        /\ StepExact
        /\ \A i \in 0 .. (k - 1) : counts[i] >= 0
        /\ (pc = "initial" /\ n = pv.n - 1) =>
               \A i \in 0 .. (k - 1) :
                   counts[i] = Cardinality({v \in Nodes(pv) : pv.priority[v] = i})

\* counts has been decremented both by lift and by update: the pass has run,
\* a vertex it left unmarked has its counter at TOP, and some counts entry is
\* below the number of vertices of its priority.
C25_Witness ==
    /\ pc = "main" /\ PassRan /\ CountsExact(Members)
    /\ \E v \in Nodes(pv) : unstable[v] = 0 /\ pms[v][pv.priority[v] % 2] = TOP
    /\ \E i \in 0 .. (k - 1) :
           counts[i] < Cardinality({v \in Nodes(pv) : pv.priority[v] = i})

\* The step raises a counter of v.
RaisedNext(v) == pms'[v] # pms[v]

\* v is raised by the call lift(v, none) of this iteration of the initial
\* pass and not again by the calls lift(u, v) for its predecessors u that
\* the iteration makes afterwards.
RaisedByInitialLift(v) ==
    /\ pc = "initial" /\ v = n
    /\ lift(Members, n, NoNode).ret
    /\ pms'[v] = lift(Members, n, NoNode).s.pms[v]

\* u is among the vertices for which the scan of the in-edges of v calls
\* lift(u, v).
ScannedPred(u, v) == \E j \in 1 .. Len(Preds(pv, v)) : Preds(pv, v)[j] = u

\* C26: no raise is lost.  A vertex whose counter is raised, by a lift of
\* the initial pass or of the main loop or by update, is on the worklist
\* afterwards, or was raised by lift(v, none) of the initial pass, which
\* calls lift(u, v) for every predecessor u at once; a vertex on the worklist
\* stays there until it is popped; the iteration that pops v calls
\* lift(u, v) for every predecessor u of v; and solve leaves the main loop
\* only with the worklist empty.
C26_NoRaiseLost ==
    [][(Solving /\ pc' # "idle") =>
          /\ \A v \in Nodes(pv) :
                 RaisedNext(v) => InTodoNext(v) \/ RaisedByInitialLift(v)
          /\ \A v \in Nodes(pv) :
                 (InTodo(v) /\ ~(pc = "main" /\ v = Head(todo))) => InTodoNext(v)
          /\ \A u, v \in Nodes(pv) :
                 (v \in Succ(pv, u) /\ (pc = "initial" \/ pc = "main")) =>
                     ScannedPred(u, v)
          /\ pc' = "done" => todo = <<>>]_vars

\* The pass has just run on DemoteGraph: update(0) has raised to TOP the
\* player-1 counter of a vertex of odd priority that no lift had queued, and
\* the vertex is the last one on the worklist.
C26_Witness ==
    /\ pv = DemoteGraph
    /\ pc = "main" /\ PassRan /\ last_update = lift_count /\ todo # <<>>
    /\ pv.priority[todo[Len(todo)]] % 2 = 1
    /\ pms[todo[Len(todo)]][1] = TOP

\* The coordinates of player p from priority d upward, lowest first.
Digits(kk, d, p) == {i \in 0 .. (kk - 1) : i % 2 = p /\ i >= d}

\* The number of values of the digits of player p below coordinate i and
\* not below d: the weight of digit i in the mixed-radix numeral.
RECURSIVE Weight(_, _, _, _)
Weight(cnt, d, p, i) ==
    IF i - 2 < d \/ i - 2 < 0 THEN 1
    ELSE (cnt[i - 2] + 1) * Weight(cnt, d, p, i - 2)

\* The number the digits of m from d upward denote.
RECURSIVE Numeral(_, _, _, _, _, _)
Numeral(cnt, kk, m, d, p, i) ==
    IF i >= kk THEN 0
    ELSE IF i < d THEN Numeral(cnt, kk, m, d, p, i + 2)
    ELSE m[i] * Weight(cnt, d, p, i) + Numeral(cnt, kk, m, d, p, i + 2)

\* The number of values of all the digits from d upward.
RECURSIVE Capacity(_, _, _, _, _)
Capacity(cnt, kk, d, p, i) ==
    IF i >= kk THEN 1
    ELSE IF i < d THEN Capacity(cnt, kk, d, p, i + 2)
    ELSE (cnt[i] + 1) * Capacity(cnt, kk, d, p, i + 2)

\* The reference step on src: the numeral from d upward, plus one when d
\* has the parity of p.
StepValue(cnt, kk, src, d, p) ==
    Numeral(cnt, kk, src, d, p, p) + (IF d % 2 = p THEN 1 ELSE 0)

\* Every coordinate of player p of m is a digit within its capacity.
WithinCounts(cnt, kk, m, p) ==
    \A i \in 0 .. (kk - 1) : i % 2 = p => (m[i] >= 0 /\ m[i] <= cnt[i])

\* dst is the result of the reference step on src: TOP when the step
\* overflows, else 0 below d and the digits of the step value from d upward.
IsReferenceStep(cnt, kk, dst, src, d, p) ==
    IF StepValue(cnt, kk, src, d, p) >= Capacity(cnt, kk, d, p, p)
    THEN dst[p] = TOP
    ELSE /\ \A i \in 0 .. (kk - 1) : (i % 2 = p /\ i < d) => dst[i] = 0
         /\ WithinCounts(cnt, kk, dst, p)
         /\ Numeral(cnt, kk, dst, d, p, p) = StepValue(cnt, kk, src, d, p)

\* C27: for a src that is not TOP and has its p-coordinates within the
\* capacities, prog(src, d, p) is the reference mixed-radix step, TOP exactly
\* when the step overflows; prog of a TOP src is TOP.
C27_ProgIsMixedRadixStep ==
    pc = "prog" =>
        /\ (pms[0][lift_attempt] # TOP /\ WithinCounts(counts, k, pms[0], lift_attempt)) =>
               IsReferenceStep(counts, k, tmp, pms[0], n, lift_attempt)
        /\ pms[0][lift_attempt] = TOP => tmp[lift_attempt] = TOP

\* prog has carried from one digit into the next without overflow.
C27_Witness ==
    /\ pc = "prog" /\ k > 2
    /\ pms[0][lift_attempt] # TOP /\ WithinCounts(counts, k, pms[0], lift_attempt)
    /\ n = lift_attempt /\ n + 2 < k
    /\ pms[0][n] = counts[n] /\ tmp[n] = 0 /\ tmp[n + 2] = pms[0][n + 2] + 1

\* pm_less with the counts and the width of the current state.
Less(a, b, d, p) == pm_less(counts, k, a, b, d, p)

\* Neither measure is below the other.
Incomparable(a, b, d, p) == ~Less(a, b, d, p) /\ ~Less(b, a, d, p)

\* pm_less at cutoff d for player p is irreflexive, asymmetric and
\* transitive on the two stored measures and any third one.  A third
\* measure is taken with its coordinates of player 1-p at 0: pm_less reads
\* none of them.
StrictOrderAt(d, p) ==
    /\ ~Less(pms[0], pms[0], d, p)
    /\ Less(pms[0], pms[1], d, p) =>
           /\ ~Less(pms[1], pms[0], d, p)
           /\ \A c \in PlayerMeasures(k, p) :
                  Less(pms[1], c, d, p) => Less(pms[0], c, d, p)

\* The measure is TOP for player p or has every coordinate of player p
\* within the counts.
Bounded(m, p) == m[p] = TOP \/ WithinCounts(counts, k, m, p)

\* Incomparability of the two stored measures and of the second with a
\* third passes to the first and the third.
IncomparabilityPasses(d, p) ==
    Incomparable(pms[0], pms[1], d, p) =>
        \A c \in PlayerMeasures(k, p) :
            Incomparable(pms[1], c, d, p) => Incomparable(pms[0], c, d, p)

\* The same, the third measure bounded.
BoundedIncomparabilityPasses(d, p) ==
    Incomparable(pms[0], pms[1], d, p) =>
        \A c \in PlayerMeasures(k, p) :
            (Bounded(c, p) /\ Incomparable(pms[1], c, d, p)) =>
                Incomparable(pms[0], c, d, p)

\* C28 as stated: for every player, cutoff and counts, pm_less is the strict
\* part of a total preorder (irreflexive, asymmetric, transitive, with
\* transitive incomparability), also on measures that have coordinates
\* above the counts bound.
C28_StrictPartOfTotalPreorder ==
    pc = "lattice" =>
        \A d \in 0 .. (k - 1) : \A p \in {0, 1} :
            StrictOrderAt(d, p) /\ IncomparabilityPasses(d, p)

\* C28 as amended: pm_less is irreflexive, asymmetric and transitive on all
\* measures, also on those with coordinates above the counts bound, and its
\* incomparability is transitive on the measures whose coordinates of the
\* player lie within the counts bounds or are TOP.
C28_StrictOrder ==
    pc = "lattice" =>
        \A d \in 0 .. (k - 1) : \A p \in {0, 1} :
            /\ StrictOrderAt(d, p)
            /\ (Bounded(pms[0], p) /\ Bounded(pms[1], p)) =>
                   BoundedIncomparabilityPasses(d, p)

\* Two measures with a coordinate above the counts bound are compared and
\* the first is below the second.
C28_Witness ==
    /\ pc = "lattice"
    /\ \E d \in 0 .. (k - 1) : \E p \in {0, 1} :
           /\ Less(pms[0], pms[1], d, p)
           /\ \E i \in Digits(k, d, p) : pms[0][i] > counts[i]
           /\ \E i \in Digits(k, d, p) : pms[1][i] > counts[i]

\* The measure m with the coordinates pm_less(., ., d, p) is said not to
\* read taken from x: those of player 1-p, and the digits of player p below
\* d.  The coordinate p keeps the value of m when it is TOP in m or in x,
\* so that m stays TOP or finite for player p.
Overwritten(m, x, d, p) ==
    [i \in 0 .. (k - 1) |->
        IF i % 2 # p THEN x[i]
        ELSE IF i >= d THEN m[i]
        ELSE IF i = p /\ (m[i] = TOP \/ x[i] = TOP) THEN m[i]
        ELSE x[i]]

\* TOP is above every measure finite for player p and not below TOP.
TopIsGreatest(d, p) ==
    /\ (pms[1][p] = TOP /\ pms[0][p] # TOP) =>
           (Less(pms[0], pms[1], d, p) /\ ~Less(pms[1], pms[0], d, p))
    /\ (pms[1][p] = TOP /\ pms[0][p] = TOP) =>
           (~Less(pms[0], pms[1], d, p) /\ ~Less(pms[1], pms[0], d, p))

\* The comparison of the two stored measures with the unread coordinates
\* of the first, of the second, or of both overwritten from x.
LessOverwritten(x, d, p) ==
    {Less(Overwritten(pms[0], x, d, p), pms[1], d, p),
     Less(pms[0], Overwritten(pms[1], x, d, p), d, p),
     Less(Overwritten(pms[0], x, d, p), Overwritten(pms[1], x, d, p), d, p)}

\* Overwriting the unread coordinates leaves the comparison as it is.
UnreadCoordinates(d, p) ==
    IF Less(pms[0], pms[1], d, p)
    THEN \A x \in PlayerMeasures(k, 0) \cup PlayerMeasures(k, 1) :
             LessOverwritten(x, d, p) = {TRUE}
    ELSE \A x \in PlayerMeasures(k, 0) \cup PlayerMeasures(k, 1) :
             LessOverwritten(x, d, p) = {FALSE}

\* C29: under pm_less for player p and any cutoff d, TOP is strictly above
\* every measure whose counter of player p is finite, no finite measure is
\* above TOP, TOP is not below TOP, and the coordinates below d and those of
\* player 1-p do not influence the result.
C29_TopGreatestCutoffRespected ==
    pc = "lattice" =>
        \A d \in 0 .. (k - 1) : \A p \in {0, 1} :
            TopIsGreatest(d, p) /\ UnreadCoordinates(d, p)

\* Two measures finite for player p that agree from the cutoff upward and
\* differ in a digit of player p below it are compared, and so are a finite
\* measure and TOP.
C29_Witness ==
    /\ pc = "lattice"
    /\ \E d \in 0 .. (k - 1) : \E p \in {0, 1} :
           /\ pms[0][p] # TOP /\ pms[1][p] # TOP
           /\ \A i \in Digits(k, d, p) : pms[0][i] = pms[1][i]
           /\ \E i \in 0 .. (d - 1) :
                  i % 2 = p /\ pms[0][i] < pms[1][i] /\ pms[0][i] <= counts[i]
           /\ ~Less(pms[0], pms[1], d, p)
           /\ Less(pms[0], [pms[1] EXCEPT ![p] = TOP], d, p)

\* prog of the second stored measure, for the priority and the player of
\* the call that wrote tmp from the first.
ProgOfSecond == prog(best, pms[1], n, lift_attempt, counts, k)

\* After prog(tmp, pms[0], n, lift_attempt): the first stored measure not
\* above the second in the full comparison gives a tmp not above the
\* progression of the second at cutoff n.
ProgMonotone ==
    ~Less(pms[1], pms[0], 0, lift_attempt) =>
        ~Less(ProgOfSecond, tmp, n, lift_attempt)

\* After prog(tmp, pms[0], n, lift_attempt) with n of the parity of the
\* player: tmp is above the first stored measure at cutoff n.
ProgStrict ==
    (n % 2 = lift_attempt) => Less(pms[0], tmp, n, lift_attempt)

\* C30: for fixed counts and measures A, B whose coordinates of player p lie
\* within the counts, A not above B at cutoff 0 gives prog(A, d, p) not above
\* prog(B, d, p) at cutoff d, and when d has the parity of p, prog(A, d, p)
\* is strictly above A at cutoff d.
C30_ProgMonotoneAndStrict ==
    (pc = "prog" /\ WithinCounts(counts, k, pms[0], lift_attempt)) =>
        /\ ProgStrict
        /\ WithinCounts(counts, k, pms[1], lift_attempt) => ProgMonotone

\* prog has been applied with a priority of the player's parity to a
\* measure within the counts that is strictly below the second, itself
\* within the counts and not zero from the cutoff upward; tmp is finite.
C30_Witness ==
    /\ pc = "prog" /\ n % 2 = lift_attempt
    /\ WithinCounts(counts, k, pms[0], lift_attempt)
    /\ WithinCounts(counts, k, pms[1], lift_attempt)
    /\ Less(pms[0], pms[1], 0, lift_attempt)
    /\ \E i \in Digits(k, n, lift_attempt) : pms[1][i] > 0
    /\ tmp[lift_attempt] # TOP

\* The counters of player p of the measures a and b are the same value: both
\* TOP, or equal in every coordinate of player p.
SameCounter(kk, a, b, p) ==
    \/ a[p] = TOP /\ b[p] = TOP
    \/ \A i \in 0 .. (kk - 1) : i % 2 = p => a[i] = b[i]

\* prog(M[t], priority(v), p) computed from the measures stored in s.
Candidate(s, v, t, p) ==
    prog([i \in 0 .. (s.k - 1) |-> 0], s.pms[t], s.pv.priority[v], p,
         s.counts, s.k)

\* The successors of v whose candidate is strictly above the counter of
\* player p stored for v in s.
Improving(s, v, p) ==
    {t \in Succ(s.pv, v) :
        pm_less(s.counts, s.k, s.pms[v], Candidate(s, v, t, p),
                s.pv.priority[v], p)}

\* The counter of player p the members r hold for v is the greatest
\* improving candidate computed from s, or the counter s holds when no
\* candidate improves.
AdoptsGreatest(s, r, v, p) ==
    IF Improving(s, v, p) = {}
    THEN SameCounter(s.k, r.pms[v], s.pms[v], p)
    ELSE \E t \in Improving(s, v, p) :
             /\ SameCounter(s.k, r.pms[v], Candidate(s, v, t, p), p)
             /\ \A u \in Improving(s, v, p) :
                    ~pm_less(s.counts, s.k, Candidate(s, v, t, p),
                             Candidate(s, v, u, p), s.pv.priority[v], p)

\* C31: the owner-progress attempt of lift(v, none) with a finite owner
\* counter leaves as owner counter of v the greatest of the candidates
\* prog(M[t], priority(v), owner(v)), computed from the measures stored when
\* lift was called, that are strictly above the old counter, and leaves the
\* counter unchanged when there is none; also when v has a self-loop or
\* several candidates.
C31_OwnerAdoptsGreatest ==
    (pc = "initial" /\ pms[n][pv.player[n]] # TOP) =>
        AdoptsGreatest(Members, lift(Members, n, NoNode).s, n, pv.player[n])

RECURSIVE lift_preds_calls(_, _, _, _)

\* The call lift(node, target) on the members s with the result r: the
\* members it is called on, its vertex, its hint, the members after it and
\* the value it returns.
LiftCall(s, node, target, r) ==
    [s |-> s, node |-> node, target |-> target, after |-> r.s, ret |-> r.ret]

\* The calls from lift(ps[j], v) on, r being the result of that call.
lift_preds_calls_from(s, ps, j, v, r) ==
    <<LiftCall(s, ps[j], v, r)>> \o
    lift_preds_calls(push_if_lifted(r, ps[j]), ps, j + 1, v)

\* The calls lift(ps[j], v), lift(ps[j+1], v), ... the loop lift_preds makes
\* from the members s.
lift_preds_calls(s, ps, j, v) ==
    IF j > Len(ps) THEN <<>>
    ELSE lift_preds_calls_from(s, ps, j, v, lift(s, ps[j], v))

\* The calls of the iteration of the initial pass that starts in this state,
\* r being the result of its first call lift(n).
InitialCalls(r) ==
    <<LiftCall(Members, n, NoNode, r)>> \o
    (IF r.ret THEN lift_preds_calls(r.s, Preds(pv, n), 1, n) ELSE <<>>)

\* The calls of lift made by the iteration of the initial pass or of the
\* main loop that starts in this state, in order.
StepCalls ==
    IF pc = "initial" THEN InitialCalls(lift(Members, n, NoNode))
    ELSE IF pc = "main" /\ todo # <<>>
    THEN lift_preds_calls(todo_pop(Members).s, Preds(pv, Head(todo)), 1, Head(todo))
    ELSE <<>>

\* The members after the call c.
After(c) == c.after

\* The step leaves the measures, the recorded targets, counts and
\* lift_count as the last call of the sequence cs does.
EndsTheStep(cs) ==
    cs # <<>> =>
        /\ pms' = cs[Len(cs)].after.pms
        /\ strategy' = cs[Len(cs)].after.strategy
        /\ counts' = cs[Len(cs)].after.counts
        /\ lift_count' = cs[Len(cs)].after.lift_count

\* The step is an iteration of the initial pass or of the main loop, the
\* sequence cs lists its calls of lift, and P holds of every one of them.
EveryCall(cs, P(_)) ==
    (pc = "initial" \/ (pc = "main" /\ todo # <<>>)) =>
        /\ EndsTheStep(cs)
        /\ \A i \in 1 .. Len(cs) : P(cs[i])

\* The opponent of the owner of the vertex of the call c.
Other(c) == 1 - c.s.pv.player[c.node]

\* The opponent-consistency attempt of the call c runs (line 760).
MinRuns(c) ==
    /\ c.s.pms[c.node][Other(c)] # TOP
    /\ c.target = NoNode \/ c.target = c.s.strategy[c.node]

\* t is a successor of the vertex of c whose candidate for the opponent no
\* other successor's candidate is strictly below.
MinimalTarget(c, t) ==
    /\ t \in Succ(c.s.pv, c.node)
    /\ \A u \in Succ(c.s.pv, c.node) :
           ~pm_less(c.s.counts, c.s.k, Candidate(c.s, c.node, u, Other(c)),
                    Candidate(c.s, c.node, t, Other(c)),
                    c.s.pv.priority[c.node], Other(c))

\* After the call c the recorded target is minimal and the opponent counter
\* is not below its candidate.
MinRecorded(c) ==
    /\ MinimalTarget(c, After(c).strategy[c.node])
    /\ ~pm_less(c.s.counts, c.s.k, After(c).pms[c.node],
                Candidate(c.s, c.node, After(c).strategy[c.node], Other(c)),
                c.s.pv.priority[c.node], Other(c))

MinRunsRecords(c) == MinRuns(c) => MinRecorded(c)

\* C32: whenever the opponent-consistency attempt of lift(v, hint) runs,
\* strategy[v] is set, whether or not the counter is raised, to a successor
\* of v whose value prog(M[t], priority(v), p_other) no successor's value is
\* strictly below, and the opponent counter afterwards is not below that
\* value.
C32_StrategyIsMinimalTarget ==
    [][is_valid(pv) => EveryCall(StepCalls, MinRunsRecords)]_vars

\* A call of lift runs the attempt for a vertex with several successors,
\* leaves the measure of the vertex as it was and records another target
\* than the one recorded before.
C32_Witness ==
    /\ Solving /\ is_valid(pv)
    /\ \E i \in 1 .. Len(StepCalls) :
           /\ MinRuns(StepCalls[i])
           /\ Len(pv.out[StepCalls[i].node]) > 1
           /\ After(StepCalls[i]).pms[StepCalls[i].node] =
                  StepCalls[i].s.pms[StepCalls[i].node]
           /\ After(StepCalls[i]).strategy # StepCalls[i].s.strategy

\* The owner of the vertex of the call c.
Owner(c) == c.s.pv.player[c.node]

\* The call c has a hint that is not the recorded target of its vertex.
OffStrategy(c) == c.target # NoNode /\ c.target # c.s.strategy[c.node]

\* The owner counter after the call c is decided by the edge to the hint
\* alone: it is the candidate of the hint when the counter was finite and
\* strictly below that candidate, and the old counter otherwise.
HintDecides(c) ==
    IF /\ c.s.pms[c.node][Owner(c)] # TOP
       /\ pm_less(c.s.counts, c.s.k, c.s.pms[c.node],
                  Candidate(c.s, c.node, c.target, Owner(c)),
                  c.s.pv.priority[c.node], Owner(c))
    THEN SameCounter(c.s.k, After(c).pms[c.node],
                     Candidate(c.s, c.node, c.target, Owner(c)), Owner(c))
    ELSE \A i \in 0 .. (c.s.k - 1) :
             i % 2 = Owner(c) => After(c).pms[c.node][i] = c.s.pms[c.node][i]

\* The call c leaves the opponent counter and the recorded target of its
\* vertex as they were.
OpponentSideKept(c) ==
    /\ After(c).strategy[c.node] = c.s.strategy[c.node]
    /\ \A i \in 0 .. (c.s.k - 1) :
           i % 2 = Other(c) => After(c).pms[c.node][i] = c.s.pms[c.node][i]

OffStrategyKeeps(c) ==
    OffStrategy(c) => (OpponentSideKept(c) /\ HintDecides(c))

\* C33: lift(v, hint) with a hint that is not none and differs from
\* strategy[v] leaves the opponent counter of v, in all its coordinates, and
\* strategy[v] unchanged; only the owner counter may change, and only on the
\* basis of the edge to hint.
C33_OffStrategyHint ==
    [][is_valid(pv) => EveryCall(StepCalls, OffStrategyKeeps)]_vars

\* A call lift(v, hint) whose hint is not the recorded target of v, for a
\* vertex with several successors, a recorded target and a finite opponent
\* counter, raises the owner counter of v.
C33_Witness ==
    /\ Solving /\ is_valid(pv)
    /\ \E i \in 1 .. Len(StepCalls) :
           /\ OffStrategy(StepCalls[i])
           /\ StepCalls[i].s.strategy[StepCalls[i].node] # NoNode
           /\ StepCalls[i].s.pms[StepCalls[i].node][Other(StepCalls[i])] # TOP
           /\ Len(pv.out[StepCalls[i].node]) > 1
           /\ After(StepCalls[i]).pms # StepCalls[i].s.pms

\* The members after the owner-progress attempt of the call c (lines
\* 732-758).
AfterMax(c) ==
    lift_max_part([s |-> c.s, best_ch0 |-> NoNode, best_ch1 |-> NoNode,
                   best_to |-> NoNode],
                  c.node, c.target, c.s.pv.priority[c.node], Owner(c)).s

\* The measures a and b agree in every coordinate of player p.
SameCoordinates(kk, a, b, p) ==
    \A i \in 0 .. (kk - 1) : i % 2 = p => a[i] = b[i]

\* The call c writes, of the measures, the recorded targets, counts, the
\* worklist and the dirty bits, nothing but the measure and the recorded
\* target of its vertex and counts at the priority of its vertex.
LiftFrame(c) ==
    /\ \A v \in Nodes(c.s.pv) \ {c.node} :
           /\ After(c).pms[v] = c.s.pms[v]
           /\ After(c).strategy[v] = c.s.strategy[v]
    /\ \A i \in (0 .. (c.s.k - 1)) \ {c.s.pv.priority[c.node]} :
           After(c).counts[i] = c.s.counts[i]
    /\ After(c).todo = c.s.todo
    /\ After(c).dirty = c.s.dirty

\* In the call c the owner-progress attempt leaves the opponent's
\* coordinates of the measure of the vertex as they were, and the
\* opponent-consistency attempt the owner's; mid is the measure of the
\* vertex between the two attempts.
RaiseKeepsOtherParityVia(c, mid) ==
    /\ SameCoordinates(c.s.k, mid, c.s.pms[c.node], Other(c))
    /\ ~(c.s.pms[c.node][0] = TOP /\ c.s.pms[c.node][1] = TOP) =>
           SameCoordinates(c.s.k, After(c).pms[c.node], mid, Owner(c))

RaiseKeepsOtherParity(c) == RaiseKeepsOtherParityVia(c, AfterMax(c).pms[c.node])

LiftFrameAndParity(c) == LiftFrame(c) /\ RaiseKeepsOtherParity(c)

\* C34: lift(v, hint) changes no measure of a vertex other than v, no
\* strategy entry other than strategy[v], no counts entry other than
\* counts[priority(v)], and neither the worklist nor the dirty bits; a raise
\* of the counter of player p leaves every coordinate of parity 1-p of the
\* measure of v unchanged.
C34_LiftFrame == [][EveryCall(StepCalls, LiftFrameAndParity)]_vars

\* The call c changes the coordinates of player p of the measure of its
\* vertex, whose other coordinates are not all zero.
RaisesBeside(c, p) ==
    /\ ~SameCoordinates(c.s.k, After(c).pms[c.node], c.s.pms[c.node], p)
    /\ \E j \in 0 .. (c.s.k - 1) : j % 2 # p /\ c.s.pms[c.node][j] > 0

\* A call of lift raises one counter of a vertex whose other counter is not
\* zero, while the worklist is not empty and another vertex has a measure
\* that is not zero.
C34_Witness ==
    /\ Solving
    /\ \E i \in 1 .. Len(StepCalls) :
           /\ RaisesBeside(StepCalls[i], 0) \/ RaisesBeside(StepCalls[i], 1)
           /\ StepCalls[i].s.todo # <<>>
           /\ \E v \in Nodes(pv) \ {StepCalls[i].node} :
                  \E j \in 0 .. (k - 1) : StepCalls[i].s.pms[v][j] # 0

\* The value the call c returns.
Returns(c) == c.ret

\* The call c finds both counters of its vertex at TOP (line 722).
FindsBothTop(c) == c.s.pms[c.node][0] = TOP /\ c.s.pms[c.node][1] = TOP

\* The call c returns true exactly when it changed a counter of its vertex,
\* leaves all measures and counts as they were when it returns false, and
\* counts itself once: in lift_count when it returns true, in lift_attempt
\* when it returns false, and in neither when both counters were at TOP.
ReturnTellsRaise(c) ==
    /\ Returns(c) <=> After(c).pms[c.node] # c.s.pms[c.node]
    /\ ~Returns(c) => (After(c).pms = c.s.pms /\ After(c).counts = c.s.counts)
    /\ After(c).lift_count =
           c.s.lift_count + (IF Returns(c) THEN 1 ELSE 0)
    /\ After(c).lift_attempt =
           c.s.lift_attempt + (IF Returns(c) \/ FindsBothTop(c) THEN 0 ELSE 1)

\* C35: lift(v, hint) returns true if and only if it raised at least one of
\* the two counters of v; when it returns false every measure and every
\* counts entry is as before the call; and each call that does not find both
\* counters at TOP increments exactly one of lift_count (on true) and
\* lift_attempt (on false).
C35_ReturnTellsRaise == [][EveryCall(StepCalls, ReturnTellsRaise)]_vars

\* One iteration of the main loop makes a call of lift that returns true
\* and a call that computes a candidate for a vertex with a finite counter
\* and returns false.
C35_Witness ==
    /\ pc = "main"
    /\ \E i \in 1 .. Len(StepCalls) : Returns(StepCalls[i])
    /\ \E i \in 1 .. Len(StepCalls) :
           /\ ~Returns(StepCalls[i]) /\ ~FindsBothTop(StepCalls[i])
           /\ After(StepCalls[i]).tmp # StepCalls[i].s.tmp

\* The step is an iteration of the main loop up to the throttle test.
MainIteration == pc = "main" /\ todo # <<>> /\ pc' \in {"main", "update0"}

\* The parts of C36 that do not depend on the threshold: the step after the
\* test that starts a pass is update(0), the next is update(1), then the
\* main loop goes on; a pass starts from the main loop only and is counted
\* from the lifts made so far; the initial pass starts none.
PassOrder ==
    /\ pc = "update0" => (pc' = "update1" /\ pms' = update(Members, 0).pms
                          /\ todo' = update(Members, 0).todo)
    /\ pc = "update1" => (pc' = "main" /\ pms' = update(Members, 1).pms
                          /\ todo' = update(Members, 1).todo)
    /\ pc' = "update0" => (pc = "main" /\ last_update' = lift_count')
    /\ (MainIteration /\ pc' = "main") => last_update' = last_update
    /\ pc = "initial" => (pc' \in {"initial", "main"} /\ last_update' = 0)

\* C36 as stated: after the predecessors of a popped vertex have been
\* processed, the pass runs, update(0) then update(1), exactly when at least
\* 10 * |V| successful lifts have occurred since the last pass, or since the
\* start of solve; the initial pass runs no pass.
C36_PassAtTenV ==
    [][pc' # "idle" =>
          /\ PassOrder
          /\ MainIteration =>
                 (pc' = "update0" <=>
                      lift_count' - last_update >= ThrottleFactor * pv.n)]_vars

\* C36 as amended: the pass runs exactly when more than 10 * |V| successful
\* lifts have occurred since the last pass.
C36_PassAboveTenV ==
    [][pc' # "idle" =>
          /\ PassOrder
          /\ MainIteration =>
                 (pc' = "update0" <=>
                      lift_count' - last_update > ThrottleFactor * pv.n)]_vars

\* An iteration of the main loop has just started a pass, more than
\* 10 * |V| lifts after the start of solve.
C36_Witness ==
    /\ pc = "update0"
    /\ lift_count = last_update
    /\ last_update > ThrottleFactor * pv.n

\* The graph g with its vertices numbered in the opposite order: vertex v of
\* g is vertex g.n - 1 - v.  The initial pass and the scans for predecessors
\* then visit the vertices of g in the opposite order.
Mirrored(g) ==
    [n |-> g.n,
     player |-> [v \in Nodes(g) |-> g.player[g.n - 1 - v]],
     priority |-> [v \in Nodes(g) |-> g.priority[g.n - 1 - v]],
     out |-> [v \in Nodes(g) |->
                 [e \in 1 .. Len(g.out[g.n - 1 - v]) |->
                     g.n - 1 - g.out[g.n - 1 - v][e]]]]

\* The graph g with the out-edges of every vertex enumerated in the
\* opposite order.
EdgesReversed(g) ==
    [g EXCEPT !.out = [v \in Nodes(g) |->
                          [e \in 1 .. Len(g.out[v]) |->
                              g.out[v][Len(g.out[v]) + 1 - e]]]]

\* C37: the winning regions solve returns do not depend on the scheduling:
\* for the same valid graph, another order of visiting the vertices and of
\* enumerating predecessors and out-edges yields the same winner for every
\* vertex.
C37_WinnersIndependentOfOrder ==
    (Returned /\ is_valid(pv)) =>
        \A v \in Nodes(pv) :
            /\ get_winning_player(solve(EdgesReversed(pv)), v) =
                   get_winning_player(solution, v)
            /\ get_winning_player(solve(Mirrored(pv)), pv.n - 1 - v) =
                   get_winning_player(solution, v)

\* The winning region of player p in the solution sol of graph g.
RegionOf(sol, p) == {v \in DOMAIN sol.winning : sol.winning[v] = p}

\* The solution sol of graph g records a strategy only for vertices owned by
\* their winner, and each target is a successor with the same winner.
StrategyInsideRegions(g, sol) ==
    \A v \in DOMAIN sol.strategy :
        /\ g.player[v] = get_winning_player(sol, v)
        /\ sol.strategy[v] \in Succ(g, v)
        /\ get_winning_player(sol, sol.strategy[v]) = get_winning_player(sol, v)

\* The recursive solver and the solution the solver returned give every
\* vertex of the graph the same winner.
SameWinners(g, sol) ==
    \A v \in Nodes(g) :
        get_winning_player(recursive_solve(g), v) = get_winning_player(sol, v)

\* C38: on every valid graph the recursive solver with unlimited depth and
\* the progress-measure solver give every vertex the same winner, and the
\* recursive solver records a strategy only for vertices owned by their
\* winner, with a successor inside the same winning region as its target.
C38_RecursiveAgrees ==
    (Returned /\ is_valid(pv)) =>
        /\ SameWinners(pv, solution)
        /\ StrategyInsideRegions(pv, recursive_solve(pv))

\* The Buechi solver gives every vertex of graph g a winner in {0, 1}, the
\* one the solution sol has for it.
BuechiWinners(g, sol) ==
    \A v \in Nodes(g) :
        /\ get_winning_player(buechi_solve(g), v) \in {0, 1}
        /\ get_winning_player(buechi_solve(g), v) = get_winning_player(sol, v)

====
